---------------------------- MODULE Spec2Model ----------------------------
(***************************************************************************)
(* State-machine model of the RTDM port of the Bosch C_CAN / D_CAN driver  *)
(* (rtcan_c_can.c): the message-object pool, the transmit ring with its    *)
(* admission semaphore, the interrupt pass, the bus state machine and the  *)
(* mode controller.                                                        *)
(*                                                                         *)
(* Registers are modelled by what the driver reads and writes in them: a   *)
(* message control word is the set of its IF_MCONT_* bits, the control     *)
(* register the set of its CONTROL_* bits, the status register the set of  *)
(* its STATUS_* bits plus the last-error-code field.                       *)
(***************************************************************************)
EXTENDS Integers, Sequences, FiniteSets, TLC

(***************************************************************************)
(* Program constants (rtcan_c_can.c, "message object split").              *)
(***************************************************************************)
C_CAN_NO_OF_OBJECTS == 32
C_CAN_MSG_OBJ_RX_NUM == 16
C_CAN_MSG_OBJ_TX_NUM == 16
C_CAN_MSG_OBJ_RX_FIRST == 1
C_CAN_MSG_OBJ_RX_LAST == C_CAN_MSG_OBJ_RX_FIRST + C_CAN_MSG_OBJ_RX_NUM - 1
C_CAN_MSG_OBJ_TX_FIRST == C_CAN_MSG_OBJ_RX_LAST + 1
C_CAN_MSG_OBJ_TX_LAST == C_CAN_MSG_OBJ_TX_FIRST + C_CAN_MSG_OBJ_TX_NUM - 1
C_CAN_MSG_OBJ_RX_SPLIT == 9
\* a lower group that ends at the split object itself
RxLowLast_AtSplit == C_CAN_MSG_OBJ_RX_SPLIT
C_CAN_MSG_RX_LOW_LAST == C_CAN_MSG_OBJ_RX_SPLIT - 1
C_CAN_NEXT_MSG_OBJ_MASK == C_CAN_MSG_OBJ_TX_NUM - 1
STATUS_INTERRUPT == 32768
LEC_NO_ERROR == 0
LEC_STUFF_ERROR == 1
LEC_FORM_ERROR == 2
LEC_ACK_ERROR == 3
LEC_BIT1_ERROR == 4
LEC_BIT0_ERROR == 5
LEC_CRC_ERROR == 6
LEC_UNUSED == 7
MIN_TIMEOUT_VALUE == 6

(***************************************************************************)
(* Bounds of the model.                                                    *)
(***************************************************************************)
\* submission contexts
NumSenders == 2
\* admission requests (rtdm_sem_down calls) made in one run
MaxAcquire == 19
\* interrupt passes are not started once the semaphore value reaches this
MaxSemValue == 17
\* frames the bus delivers to the receive pool in one run
MaxFrames == 8
\* receive objects 1..MaxPoolSlot may hold a frame when a drain of a given
\* pool starts
MaxPoolSlot == 10
\* status-register changes raised by the hardware in one run
MaxStatusChanges == 3
\* stop requests made in one run
MaxStops == 2
\* receive objects 1..MaxEobPending may still be interrupt-pending when the
\* last receive object gets its frame
MaxEobPending == 4
\* receive objects 1..MaxLockPending may hold a frame when the passes through
\* all three branches start
MaxLockPending == 2
\* priv->tx_next starts within MaxWrapDist of a wrap of its low half
MaxWrapDist == 18
\* the busy bit of an interface reads set for up to MaxBusy reads in a row
MaxBusy == 7
\* frames that come in, and changes of the error state, while the passes
\* that meet a slow interface run
MaxBusyArrivals == 2
MaxBusyStatus == 1
\* commands to an interface that time out in one run
MaxTimeouts == 1
\* prescalers 1..MaxBrpDraw are stored as bit time before a start
MaxBrpDraw == 1030

Senders == 1..NumSenders
RxObjs == C_CAN_MSG_OBJ_RX_FIRST..C_CAN_MSG_OBJ_RX_LAST
TxObjs == C_CAN_MSG_OBJ_TX_FIRST..C_CAN_MSG_OBJ_TX_LAST
MsgObjs == 1..C_CAN_NO_OF_OBJECTS

VARIABLES
    state,            \* dev->state
    ctrlreg,          \* C_CAN_CTRL_REG: subset of {"TEST","EIE","SIE","IE"}
    stsreg,           \* C_CAN_STS_REG flags: subset of {"BOFF","EWARN","EPASS","RXOK","TXOK"}
    lec,              \* C_CAN_STS_REG last-error-code field, 0..7
    sts_int,          \* the hardware's status interrupt is pending
    msgobj,           \* message RAM: [1..32 -> [msgval, ctrl, data]]
    tx_next,          \* priv->tx_next
    tx_echo,          \* priv->tx_echo
    tx_sem,           \* dev->tx_sem: [alive, value, waitq]
    sender,           \* each submission context: idle, waiting, holding, abandoned
    irq_registered,   \* rtdm_irq_request done and not freed
    irq_pc,           \* position of the interrupt pass
    irqstatus,        \* priv->irqstatus
    msg_obj,          \* c_can_do_rx_poll: loop index
    val_bit,          \* c_can_do_rx_poll: bit msg_obj-1 of the last read of INTPND
    recv_lock_free,   \* c_can_interrupt: local flag
    lock_gets,        \* times the pass has taken the dispatch-list and socket locks
    device_lock,      \* dev->device_lock: "free" or its holder
    recv_list_lock,   \* rtcan_recv_list_lock
    socket_lock,      \* rtcan_socket_lock
    current_status,   \* priv->current_status (flags)
    last_status,      \* priv->last_status (flags)
    rcvLog,           \* rtcan_rcv calls of the current interrupt pass
    delivered,        \* data frames handed to rtcan_rcv, in call order
    hist,             \* bookkeeping of what happened: counters and flags
    cf,               \* the can_frame handed to c_can_write_msg_object
    ifregs,           \* IF1 registers: [arb1, arb2, msgctrl, data]
    skb,              \* the rb_frame c_can_read_msg_object fills
    bit_time,         \* priv->bit_time: [brp, sjw, prop_seg, phase_seg1, phase_seg2]
    btregs            \* C_CAN_BTR_REG and C_CAN_BRPEXT_REG: [btr, brpe]

hwVars == <<ctrlreg, stsreg, lec, sts_int, msgobj>>
txVars == <<tx_next, tx_echo, tx_sem, sender>>
irqVars == <<irq_pc, irqstatus, msg_obj, val_bit, recv_lock_free, lock_gets>>
lockVars == <<device_lock, recv_list_lock, socket_lock>>
busVars == <<current_status, last_status>>
logVars == <<rcvLog, delivered, hist>>
codecVars == <<cf, ifregs, skb, bit_time, btregs>>
vars == <<state, hwVars, txVars, irq_registered, irqVars, lockVars, busVars, logVars,
          codecVars>>

(***************************************************************************)
(* Message objects.                                                        *)
(***************************************************************************)
InvalidObj == [msgval |-> FALSE, ctrl |-> {}, data |-> 0]

\* c_can_inval_msg_object: arbitration and control written as 0
c_can_inval_msg_object(mo, objno) ==
    [mo EXCEPT ![objno] = [msgval |-> FALSE, ctrl |-> {}, data |-> @.data]]

\* c_can_setup_receive_object: everything but TXRQST is written
c_can_setup_receive_object(mo, objno, mcont) ==
    [mo EXCEPT ![objno] = [msgval |-> TRUE, ctrl |-> mcont, data |-> @.data]]

RECURSIVE InvalFrom(_, _)
InvalFrom(mo, i) ==
    IF i > C_CAN_NO_OF_OBJECTS THEN mo
    ELSE InvalFrom(c_can_inval_msg_object(mo, i), i + 1)

RECURSIVE SetupRxFrom(_, _)
SetupRxFrom(mo, i) ==
    IF i >= C_CAN_MSG_OBJ_RX_LAST THEN mo
    ELSE SetupRxFrom(c_can_setup_receive_object(mo, i, {"RXIE", "UMASK"}), i + 1)

\* c_can_configure_msg_objects: invalidate all 32, set up the receive FIFO
c_can_configure_msg_objects(mo) ==
    c_can_setup_receive_object(
        SetupRxFrom(InvalFrom(mo, C_CAN_MSG_OBJ_RX_FIRST), C_CAN_MSG_OBJ_RX_FIRST),
        C_CAN_MSG_OBJ_RX_LAST, {"EOB", "RXIE", "UMASK"})

get_tx_next_msg_obj(next) ==
    (next % (C_CAN_NEXT_MSG_OBJ_MASK + 1)) + C_CAN_MSG_OBJ_TX_FIRST

get_tx_echo_msg_obj(echo) ==
    (echo % (C_CAN_NEXT_MSG_OBJ_MASK + 1)) + C_CAN_MSG_OBJ_TX_FIRST

\* c_can_write_msg_object as far as the pool sees it: MSGVAL, and the control
\* word TXIE | TXRQST | EOB (| dlc), put with IF_COMM_ALL
c_can_write_msg_object(mo, objno, frame) ==
    [mo EXCEPT ![objno] = [msgval |-> TRUE,
                           ctrl |-> {"TXIE", "TXRQST", "EOB"},
                           data |-> frame]]

\* c_can_enable_all_interrupts: read-modify-write of the control register
c_can_enable_all_interrupts(reg, enable) ==
    IF enable THEN reg \cup {"SIE", "EIE", "IE"}
    ELSE reg \ {"EIE", "IE", "SIE"}

IntBits == {"SIE", "EIE", "IE"}

(***************************************************************************)
(* The RTDM counting semaphore dev->tx_sem together with the contexts      *)
(* that sleep on it.  S is [sem |-> [alive, value, waitq], snd |-> sender].*)
(***************************************************************************)
NoSem == [alive |-> FALSE, value |-> 0, waitq |-> <<>>]

rtdm_sem_init(S, n) ==
    [S EXCEPT !.sem = [alive |-> TRUE, value |-> n, waitq |-> <<>>]]

\* wakes the first sleeper with the unit, or counts the unit
rtdm_sem_up(S) ==
    IF S.sem.waitq /= <<>>
    THEN [sem |-> [S.sem EXCEPT !.waitq = Tail(@)],
          snd |-> [S.snd EXCEPT ![Head(S.sem.waitq)] = "holding"]]
    ELSE [S EXCEPT !.sem.value = @ + 1]

\* every sleeper returns -EIDRM
rtdm_sem_destroy(S) ==
    [sem |-> [S.sem EXCEPT !.alive = FALSE, !.waitq = <<>>],
     snd |-> [s \in Senders |->
                 IF S.snd[s] = "waiting" THEN "abandoned" ELSE S.snd[s]]]

rtdm_sem_down(S, s) ==
    IF ~S.sem.alive THEN [S EXCEPT !.snd[s] = "abandoned"]
    ELSE IF S.sem.value > 0
         THEN [sem |-> [S.sem EXCEPT !.value = @ - 1],
               snd |-> [S.snd EXCEPT ![s] = "holding"]]
         ELSE [sem |-> [S.sem EXCEPT !.waitq = Append(@, s)],
               snd |-> [S.snd EXCEPT ![s] = "waiting"]]

SemSt == [sem |-> tx_sem, snd |-> sender]

CAN_STATE_OPERATING(st) == st \in {"ERROR_ACTIVE", "ERROR_WARNING", "ERROR_PASSIVE"}


(***************************************************************************)
(* The hardware, as the driver relies on it.                               *)
(***************************************************************************)
HasBit(mo, objno, bit) == bit \in mo[objno].ctrl

\* C_CAN_INT_REG: 0x8000 for a pending status interrupt, else the number of
\* the lowest message object whose INTPND is set, else 0
IntReg ==
    IF sts_int /\ "SIE" \in ctrlreg THEN STATUS_INTERRUPT
    ELSE IF \E i \in MsgObjs : HasBit(msgobj, i, "INTPND")
         THEN CHOOSE i \in MsgObjs :
                  /\ HasBit(msgobj, i, "INTPND")
                  /\ \A j \in 1..(i - 1) : ~HasBit(msgobj, j, "INTPND")
         ELSE 0

\* the lowest-numbered object with TXRQST set is the one the core sends next
TxPending(mo) == {i \in MsgObjs : mo[i].msgval /\ HasBit(mo, i, "TXRQST")}

LowestOf(S) == CHOOSE i \in S : \A j \in S : i <= j

\* a frame has gone out: TXRQST is cleared, INTPND raised when TXIE is set
HwTxComplete ==
    /\ TxPending(msgobj) /= {}
    /\ LET i == LowestOf(TxPending(msgobj)) IN
         msgobj' = [msgobj EXCEPT ![i].ctrl =
                        (@ \ {"TXRQST"}) \cup
                        (IF "TXIE" \in @ THEN {"INTPND"} ELSE {})]
    /\ UNCHANGED <<state, ctrlreg, stsreg, lec, sts_int, txVars, irq_registered,
                   irqVars, lockVars, busVars, logVars>>
    /\ UNCHANGED codecVars

\* receive objects able to take a frame: valid and NEWDAT clear
RxFree(mo) == {i \in RxObjs : mo[i].msgval /\ ~HasBit(mo, i, "NEWDAT")}

RxValid(mo) == {i \in RxObjs : mo[i].msgval}

\* "c_can core saves a received CAN message into the first free message
\* object it finds free (starting with the lowest)"; with none free the
\* end-of-block object is overwritten and flagged MSGLST
HwRxStore(mo, frame) ==
    IF RxFree(mo) /= {}
    THEN LET i == LowestOf(RxFree(mo)) IN
         [mo EXCEPT ![i] = [msgval |-> TRUE,
                            ctrl |-> @.ctrl \cup {"NEWDAT"} \cup
                                (IF "RXIE" \in @.ctrl THEN {"INTPND"} ELSE {}),
                            data |-> frame]]
    ELSE LET E == {i \in RxValid(mo) : HasBit(mo, i, "EOB")} IN
         IF E = {} THEN mo
         ELSE LET i == LowestOf(E) IN
              [mo EXCEPT ![i] = [msgval |-> TRUE,
                                 ctrl |-> @.ctrl \cup {"NEWDAT", "MSGLST"} \cup
                                     (IF "RXIE" \in @.ctrl THEN {"INTPND"} ELSE {}),
                                 data |-> frame]]

\* frames are numbered in the order they arrive on the bus
HwRxArrive ==
    /\ hist.arrivals < MaxFrames
    /\ RxValid(msgobj) /= {}
    /\ msgobj' = HwRxStore(msgobj, hist.arrivals + 1)
    /\ hist' = [hist EXCEPT !.arrivals = @ + 1]
    /\ UNCHANGED <<state, ctrlreg, stsreg, lec, sts_int, txVars, irq_registered,
                   irqVars, lockVars, busVars, rcvLog, delivered>>
    /\ UNCHANGED codecVars

StatusFlags == {"BOFF", "EWARN", "EPASS"}

\* the error counters pass the warning limit, then the passive limit, then
\* the bus-off limit
StatusLevels ==
    {{}, {"EWARN"}, {"EWARN", "EPASS"}, {"EWARN", "EPASS", "BOFF"}}

\* the error state of the core changes (f) or a bus error leaves its code in
\* the LEC field (err): the status interrupt is raised.  hist.rose keeps the
\* flags that have risen since the last start and that no pass has seen set
\* since then
HwStatusChange ==
    /\ hist.stchanges < MaxStatusChanges
    /\ \E f \in StatusLevels, err \in BOOLEAN :
         /\ <<f, err>> /= <<stsreg \cap StatusFlags, FALSE>>
         /\ stsreg' = (stsreg \ StatusFlags) \cup f
         /\ lec' = IF err THEN LEC_STUFF_ERROR ELSE lec
         /\ hist' = [hist EXCEPT !.stchanges = @ + 1,
                                 !.rose = ((@ \cap f) \cup (f \ stsreg)) \ hist.seen]
    /\ sts_int' = TRUE
    /\ UNCHANGED <<state, ctrlreg, msgobj, txVars, irq_registered,
                   irqVars, lockVars, busVars, rcvLog, delivered>>
    /\ UNCHANGED codecVars

OkFlags == {"TXOK", "RXOK"}

\* the codes c_can_handle_bus_err has a case for
LecErrors == {LEC_STUFF_ERROR, LEC_FORM_ERROR, LEC_ACK_ERROR, LEC_BIT1_ERROR,
              LEC_BIT0_ERROR, LEC_CRC_ERROR}

\* a frame has gone out or has come in without error, or both before the
\* register is read: the core sets TXOK, RXOK or both and raises the status
\* interrupt; whether it also puts the LEC field back to "no error" is left
\* open
HwTransferOk ==
    /\ hist.stchanges < MaxStatusChanges
    /\ \E ok \in (SUBSET OkFlags) \ {{}} :
         stsreg' = stsreg \cup ok
    /\ lec' \in {lec, LEC_NO_ERROR}
    /\ sts_int' = TRUE
    /\ hist' = [hist EXCEPT !.stchanges = @ + 1]
    /\ UNCHANGED <<state, ctrlreg, msgobj, txVars, irq_registered,
                   irqVars, lockVars, busVars, rcvLog, delivered>>
    /\ UNCHANGED codecVars

\* a bus error of any kind leaves its code in the LEC field
HwBusError ==
    /\ hist.stchanges < MaxStatusChanges
    /\ \E code \in LecErrors : lec' = code
    /\ sts_int' = TRUE
    /\ hist' = [hist EXCEPT !.stchanges = @ + 1]
    /\ UNCHANGED <<state, ctrlreg, stsreg, msgobj, txVars, irq_registered,
                   irqVars, lockVars, busVars, rcvLog, delivered>>
    /\ UNCHANGED codecVars

(***************************************************************************)
(* Register arithmetic on naturals.                                        *)
(***************************************************************************)
RECURSIVE BitAnd(_, _)
BitAnd(a, b) ==
    IF a = 0 \/ b = 0 THEN 0
    ELSE (a % 2) * (b % 2) + 2 * BitAnd(a \div 2, b \div 2)

RECURSIVE BitOr(_, _)
BitOr(a, b) ==
    IF a = 0 THEN b
    ELSE IF b = 0 THEN a
    ELSE (IF a % 2 = 1 \/ b % 2 = 1 THEN 1 ELSE 0) + 2 * BitOr(a \div 2, b \div 2)

Shl(a, n) == a * 2^n

Shr(a, n) == a \div 2^n

\* conversion to u8
U8(x) == x % 256

IFX_WRITE_LOW_16BIT(x) == x % 65536

IFX_WRITE_HIGH_16BIT(x) == Shr(x, 16)

(***************************************************************************)
(* Frame codec: c_can_write_msg_object and c_can_read_msg_object on the    *)
(* interface registers.  A can_id is kept as its identifier bits (id, the  *)
(* low 29 bits), CAN_EFF_FLAG (eff) and CAN_RTR_FLAG (rtr).                *)
(***************************************************************************)
CAN_MAX_DLC == 8
CAN_EFF_MASK == 536870911
CAN_SFF_MASK == 2047
IF_ARB_MSGVAL == 32768
IF_ARB_MSGXTD == 16384
IF_ARB_TRANSMIT == 8192
IF_MCONT_TXIE == 2048
IF_MCONT_TXRQST == 256
IF_MCONT_EOB == 128

get_can_dlc(i) == IF i < CAN_MAX_DLC THEN i ELSE CAN_MAX_DLC

NoFrame == [id |-> 0, eff |-> FALSE, rtr |-> FALSE, can_dlc |-> 0, data |-> <<>>]

ZeroRegs == [arb1 |-> 0, arb2 |-> 0, msgctrl |-> 0, data |-> <<0, 0, 0, 0>>]

\* an encoder that puts a standard identifier at bit 16 of the arbitration
\* field
c_can_write_msg_object_if_Shift16(regs, frame) ==
    LET flags0 == IF ~frame.rtr THEN IF_ARB_TRANSMIT ELSE 0
        id == IF frame.eff THEN BitAnd(frame.id, CAN_EFF_MASK)
              ELSE Shl(BitAnd(frame.id, CAN_SFF_MASK), 16)
        flags1 == IF frame.eff THEN BitOr(flags0, IF_ARB_MSGXTD) ELSE flags0
        flags == BitOr(flags1, IF_ARB_MSGVAL)
    IN [arb1 |-> IFX_WRITE_LOW_16BIT(id),
        arb2 |-> BitOr(flags, IFX_WRITE_HIGH_16BIT(id)),
        msgctrl |-> BitOr(BitOr(IF_MCONT_TXIE, IF_MCONT_TXRQST),
                          BitOr(IF_MCONT_EOB, frame.can_dlc)),
        data |-> regs.data]

\* the register writes of c_can_write_msg_object; data registers the loop
\* does not reach keep their value
c_can_write_msg_object_if(regs, frame) ==
    LET flags0 == IF ~frame.rtr THEN IF_ARB_TRANSMIT ELSE 0
        id == IF frame.eff THEN BitAnd(frame.id, CAN_EFF_MASK)
              ELSE Shl(BitAnd(frame.id, CAN_SFF_MASK), 18)
        flags1 == IF frame.eff THEN BitOr(flags0, IF_ARB_MSGXTD) ELSE flags0
        flags == BitOr(flags1, IF_ARB_MSGVAL)
        nwords == (frame.can_dlc + 1) \div 2
    IN [arb1 |-> IFX_WRITE_LOW_16BIT(id),
        arb2 |-> BitOr(flags, IFX_WRITE_HIGH_16BIT(id)),
        msgctrl |-> BitOr(BitOr(IF_MCONT_TXIE, IF_MCONT_TXRQST),
                          BitOr(IF_MCONT_EOB, frame.can_dlc)),
        data |-> [w \in 1..4 |->
                     IF w <= nwords
                     THEN BitOr(frame.data[2 * w - 1], Shl(frame.data[2 * w], 8))
                     ELSE regs.data[w]]]

\* c_can_read_msg_object.  val = ARB1 | (flags << 16) is kept without its
\* bits 29..31 (the three flag bits), which CAN_EFF_MASK and, after the
\* shift by 18, CAN_SFF_MASK both drop.  data holds the bytes the loop
\* writes; a remote-request frame gets none
c_can_read_msg_object(regs, ctrl) ==
    LET can_dlc == get_can_dlc(BitAnd(ctrl, 15))
        flags == regs.arb2
        val == BitOr(regs.arb1, Shl(flags % 8192, 16))
        eff == BitAnd(flags, IF_ARB_MSGXTD) /= 0
        rtr == BitAnd(flags, IF_ARB_TRANSMIT) /= 0
        nwords == (can_dlc + 1) \div 2
    IN [id |-> IF eff THEN BitAnd(val, CAN_EFF_MASK)
               ELSE BitAnd(Shr(val, 18), CAN_SFF_MASK),
        eff |-> eff,
        rtr |-> rtr,
        can_dlc |-> can_dlc,
        data |-> IF rtr THEN <<>>
                 ELSE [i \in 1..(2 * nwords) |->
                          IF i % 2 = 1 THEN U8(regs.data[(i + 1) \div 2])
                          ELSE U8(Shr(regs.data[i \div 2], 8))]]

(***************************************************************************)
(* Bit timing.                                                             *)
(***************************************************************************)
BTR_BRP_MASK == 63
BTR_SJW_SHIFT == 6
BTR_TSEG1_SHIFT == 8
BTR_TSEG2_SHIFT == 12
BRP_EXT_BRPE_MASK == 15

\* c_can_bittiming_const
tseg1_min == 2
tseg1_max == 16
tseg2_min == 1
tseg2_max == 8
sjw_max == 4
brp_min == 1
brp_max == 1024

\* a packing that takes the extension from bit 8 of brp - 1 on
c_can_set_bittiming_Brpe8(bt) ==
    LET ten_bit_brp == bt.brp - 1
        brp == U8(BitAnd(ten_bit_brp, BTR_BRP_MASK))
        brpe == U8(Shr(ten_bit_brp, 8))
        sjw == U8(bt.sjw - 1)
        tseg1 == U8(bt.prop_seg + bt.phase_seg1 - 1)
        tseg2 == U8(bt.phase_seg2 - 1)
    IN [btr |-> BitOr(BitOr(brp, Shl(sjw, BTR_SJW_SHIFT)),
                      BitOr(Shl(tseg1, BTR_TSEG1_SHIFT), Shl(tseg2, BTR_TSEG2_SHIFT))),
        brpe |-> BitAnd(brpe, BRP_EXT_BRPE_MASK)]

\* c_can_set_bittiming: the values written to C_CAN_BTR_REG and
\* C_CAN_BRPEXT_REG; brp, brpe, sjw, tseg1 and tseg2 are u8
c_can_set_bittiming(bt) ==
    LET ten_bit_brp == bt.brp - 1
        brp == U8(BitAnd(ten_bit_brp, BTR_BRP_MASK))
        brpe == U8(Shr(ten_bit_brp, 6))
        sjw == U8(bt.sjw - 1)
        tseg1 == U8(bt.prop_seg + bt.phase_seg1 - 1)
        tseg2 == U8(bt.phase_seg2 - 1)
    IN [btr |-> BitOr(BitOr(brp, Shl(sjw, BTR_SJW_SHIFT)),
                      BitOr(Shl(tseg1, BTR_TSEG1_SHIFT), Shl(tseg2, BTR_TSEG2_SHIFT))),
        brpe |-> BitAnd(brpe, BRP_EXT_BRPE_MASK)]

\* a bit time c_can_save_bit_time has stored before the device is started
StoredBitTime ==
    [brp |-> brp_min, sjw |-> sjw_max, prop_seg |-> tseg1_min,
     phase_seg1 |-> tseg1_min, phase_seg2 |-> tseg2_min]

NoBtRegs == [btr |-> 0, brpe |-> 0]

(***************************************************************************)
(* Mode controller.                                                        *)
(***************************************************************************)
\* c_can_chip_config in normal mode (dev->ctrl_mode = 0): the control
\* register ends as EIE | SIE | IE, all objects are reconfigured, the status
\* register is written LEC_UNUSED, the bit timing is written with the
\* control register saved and restored
c_can_chip_config(hw) ==
    [hw EXCEPT !.ctrlreg = {"EIE", "SIE", "IE"},
               !.msgobj = c_can_configure_msg_objects(@),
               !.stsreg = @ \cap StatusFlags,
               !.lec = LEC_UNUSED,
               !.btregs = c_can_set_bittiming(hw.bit_time)]

Hw == [ctrlreg |-> ctrlreg, msgobj |-> msgobj, stsreg |-> stsreg, lec |-> lec,
       btregs |-> btregs, bit_time |-> bit_time]

\* the CAN_STATE_STOPPED and CAN_STATE_BUS_OFF cases of c_can_mode_start
\* after the interrupt handler is there
StartChipWith(units) ==
    LET hw == c_can_chip_config(Hw)
        S == rtdm_sem_init(SemSt, units)
    IN /\ ctrlreg' = c_can_enable_all_interrupts(hw.ctrlreg, TRUE)
       /\ msgobj' = hw.msgobj
       /\ stsreg' = hw.stsreg
       /\ lec' = hw.lec
       /\ btregs' = hw.btregs
       /\ state' = "ERROR_ACTIVE"
       /\ tx_next' = 0
       /\ tx_echo' = 0
       /\ tx_sem' = S.sem
       /\ sender' = S.snd

\* a start that creates the semaphore with one unit more than the ring has
StartChip_OneMore == StartChipWith(C_CAN_MSG_OBJ_TX_NUM + 1)

\* rtdm_sem_init(&dev->tx_sem, C_CAN_MSG_OBJ_TX_NUM)
StartChip == StartChipWith(C_CAN_MSG_OBJ_TX_NUM)

\* the bookkeeping of a start: whether rtdm_irq_request failed, and the
\* flags risen and seen since the start
StartHist(err) ==
    IF state \in {"STOPPED", "BUS_OFF"} /\ ~(state = "STOPPED" /\ err)
    THEN [hist EXCEPT !.start_err = FALSE, !.rose = {}, !.seen = {}]
    ELSE [hist EXCEPT !.start_err = (state = "STOPPED" /\ err)]

\* a start that configures the chip again when the device is operating
c_can_mode_start_Restart(err) ==
    /\ device_lock = "free"
    /\ IF state = "STOPPED" /\ err
       THEN UNCHANGED <<state, hwVars, txVars, irq_registered, btregs>>
       ELSE /\ irq_registered' = TRUE
            /\ StartChip
            /\ UNCHANGED sts_int
    /\ hist' = StartHist(err)
    /\ UNCHANGED <<irqVars, lockVars, busVars, rcvLog, delivered>>
    /\ UNCHANGED <<cf, ifregs, skb, bit_time>>

\* a start that configures the chip before it looks at the result of
\* rtdm_irq_request
c_can_mode_start_ConfigFirst(err) ==
    /\ device_lock = "free"
    /\ IF CAN_STATE_OPERATING(state)
       THEN UNCHANGED <<state, hwVars, txVars, irq_registered, btregs>>
       ELSE /\ irq_registered' = (irq_registered \/ (state = "STOPPED" /\ ~err))
            /\ StartChip
            /\ UNCHANGED sts_int
    /\ hist' = StartHist(err)
    /\ UNCHANGED <<irqVars, lockVars, busVars, rcvLog, delivered>>
    /\ UNCHANGED <<cf, ifregs, skb, bit_time>>

\* c_can_mode_start; err is the result of rtdm_irq_request, which is only
\* called in the CAN_STATE_STOPPED case; hist.start_err is whether the
\* call returned an error
c_can_mode_start(err) ==
    /\ device_lock = "free"
    /\ CASE CAN_STATE_OPERATING(state) ->
              UNCHANGED <<state, hwVars, txVars, irq_registered, btregs>>
         [] state = "STOPPED" /\ err ->
              UNCHANGED <<state, hwVars, txVars, irq_registered, btregs>>
         [] state = "STOPPED" /\ ~err ->
              /\ irq_registered' = TRUE
              /\ StartChip
              /\ UNCHANGED sts_int
         [] state = "BUS_OFF" ->
              /\ StartChip
              /\ UNCHANGED <<sts_int, irq_registered>>
         [] OTHER ->
              UNCHANGED <<state, hwVars, txVars, irq_registered, btregs>>
    /\ hist' = StartHist(err)
    /\ UNCHANGED <<irqVars, lockVars, busVars, rcvLog, delivered>>
    /\ UNCHANGED <<cf, ifregs, skb, bit_time>>

ModeStart == \E err \in BOOLEAN : c_can_mode_start(err)

\* a stop that leaves the semaphore alone
StopChip_KeepSem ==
    IF ~CAN_STATE_OPERATING(state)
    THEN UNCHANGED <<state, hwVars, txVars, irq_registered>>
    ELSE /\ ctrlreg' = c_can_enable_all_interrupts(ctrlreg, FALSE)
         /\ state' = "STOPPED"
         /\ irq_registered' = FALSE
         /\ UNCHANGED <<stsreg, lec, sts_int, msgobj, txVars>>

\* the body of c_can_mode_stop
StopChip ==
    IF ~CAN_STATE_OPERATING(state)
    THEN UNCHANGED <<state, hwVars, txVars, irq_registered>>
    ELSE LET S == rtdm_sem_destroy(SemSt) IN
         /\ ctrlreg' = c_can_enable_all_interrupts(ctrlreg, FALSE)
         /\ state' = "STOPPED"
         /\ tx_sem' = S.sem
         /\ sender' = S.snd
         /\ irq_registered' = FALSE
         /\ UNCHANGED <<stsreg, lec, sts_int, msgobj, tx_next, tx_echo>>

\* c_can_mode_stop, called and returning with no other context in between
c_can_mode_stop ==
    /\ device_lock = "free"
    /\ StopChip
    /\ UNCHANGED <<irqVars, lockVars, busVars, logVars>>
    /\ UNCHANGED codecVars

ModeStop == c_can_mode_stop

\* a context asks for CAN_MODE_STOP: c_can_set_mode is called with
\* dev->device_lock held, so the context first has to get that lock
StopRequest ==
    /\ hist.stopreq < MaxStops
    /\ hist.stopreq = hist.stopdone
    /\ hist' = [hist EXCEPT !.stopreq = @ + 1]
    /\ UNCHANGED <<state, hwVars, txVars, irq_registered, irqVars, lockVars,
                   busVars, rcvLog, delivered, codecVars>>

\* the stopping context gets dev->device_lock
StopLock ==
    /\ hist.stopreq > hist.stopdone
    /\ device_lock = "free"
    /\ device_lock' = "stop"
    /\ UNCHANGED <<state, hwVars, txVars, irq_registered, irqVars, recv_list_lock,
                   socket_lock, busVars, logVars, codecVars>>

\* c_can_mode_stop runs under the lock and the lock is put
StopRun ==
    /\ device_lock = "stop"
    /\ StopChip
    /\ device_lock' = "free"
    /\ hist' = [hist EXCEPT !.stopdone = @ + 1]
    /\ UNCHANGED <<irqVars, recv_list_lock, socket_lock, busVars, rcvLog,
                   delivered, codecVars>>

(***************************************************************************)
(* Submission contexts: rtdm_sem_down on dev->tx_sem, then                 *)
(* dev->hard_start_xmit = c_can_start_xmit with the device lock held.      *)
(***************************************************************************)
SenderAcquire(s) ==
    /\ sender[s] \in {"idle", "abandoned"}
    /\ hist.acquires < MaxAcquire
    /\ LET S == rtdm_sem_down(SemSt, s) IN
         /\ tx_sem' = S.sem
         /\ sender' = S.snd
         /\ hist' = [hist EXCEPT !.acquires = @ + 1]
    /\ UNCHANGED <<state, hwVars, tx_next, tx_echo, irq_registered, irqVars,
                   lockVars, busVars, rcvLog, delivered>>
    /\ UNCHANGED codecVars

\* c_can_start_xmit
c_can_start_xmit(s) ==
    /\ sender[s] = "holding"
    /\ device_lock = "free"
    /\ LET msg_obj_no == get_tx_next_msg_obj(tx_next) IN
         /\ msgobj' = c_can_write_msg_object(msgobj, msg_obj_no, tx_next)
         /\ hist' = [hist EXCEPT !.overwrote = @ \/ msgobj[msg_obj_no].msgval]
    /\ tx_next' = tx_next + 1
    /\ sender' = [sender EXCEPT ![s] = "idle"]
    /\ UNCHANGED <<state, ctrlreg, stsreg, lec, sts_int, tx_echo, tx_sem,
                   irq_registered, irqVars, lockVars, busVars, rcvLog, delivered>>
    /\ UNCHANGED codecVars

Acquire == \E s \in Senders : SenderAcquire(s)

StartXmit == \E s \in Senders : c_can_start_xmit(s)

(***************************************************************************)
(* Transmit drain.                                                         *)
(***************************************************************************)
\* a scan that invalidates the object at tx_echo without looking at its
\* transmit request bit, and goes no further
TxScan_HeadUntested(next, echo, mo) ==
    IF next - echo > 0
    THEN [echo |-> echo + 1,
          mo |-> c_can_inval_msg_object(mo, get_tx_echo_msg_obj(echo)),
          stalled |-> FALSE]
    ELSE [echo |-> echo, mo |-> mo, stalled |-> FALSE]

\* the for loop of c_can_do_tx: [echo, mo, stalled]
RECURSIVE TxScan(_, _, _)
TxScan(next, echo, mo) ==
    IF next - echo > 0
    THEN LET msg_obj_no == get_tx_echo_msg_obj(echo) IN
         IF ~HasBit(mo, msg_obj_no, "TXRQST")
         THEN TxScan(next, echo + 1, c_can_inval_msg_object(mo, msg_obj_no))
         ELSE [echo |-> echo, mo |-> mo, stalled |-> TRUE]
    ELSE [echo |-> echo, mo |-> mo, stalled |-> FALSE]

\* a restart test that asks for both conditions
TxRestart_Both(next, echo) ==
    /\ (next % (C_CAN_NEXT_MSG_OBJ_MASK + 1)) /= 0
    /\ (echo % (C_CAN_NEXT_MSG_OBJ_MASK + 1)) = 0

\* "restart queue if wrap-up or if queue stalled on last pkt"
TxRestart(next, echo) ==
    \/ (next % (C_CAN_NEXT_MSG_OBJ_MASK + 1)) /= 0
    \/ (echo % (C_CAN_NEXT_MSG_OBJ_MASK + 1)) = 0

\* c_can_do_tx: [echo, mo, S]
c_can_do_tx(next, echo, mo, S) ==
    LET r == TxScan(next, echo, mo)
        S1 == IF r.stalled THEN rtdm_sem_up(S) ELSE S
        S2 == IF TxRestart(next, r.echo) THEN rtdm_sem_up(S1) ELSE S1
    IN [echo |-> r.echo, mo |-> r.mo, S |-> S2]


(***************************************************************************)
(* Receive drain.                                                          *)
(***************************************************************************)
\* a mark that clears MSGLST only and leaves INTPND set
c_can_mark_rx_msg_obj_KeepPending(mo, ctrl_mask, obj) ==
    [mo EXCEPT ![obj].ctrl = ctrl_mask \ {"MSGLST"}]

\* c_can_mark_rx_msg_obj: INTPND and MSGLST cleared, NEWDAT kept
c_can_mark_rx_msg_obj(mo, ctrl_mask, obj) ==
    [mo EXCEPT ![obj].ctrl = ctrl_mask \ {"MSGLST", "INTPND"}]

\* c_can_activate_rx_msg_obj: INTPND, MSGLST and NEWDAT cleared
c_can_activate_rx_msg_obj(mo, ctrl_mask, obj) ==
    [mo EXCEPT ![obj].ctrl = ctrl_mask \ {"MSGLST", "INTPND", "NEWDAT"}]

\* c_can_activate_all_lower_rx_msg_obj: the same control word is put to
\* every object C_CAN_MSG_OBJ_RX_FIRST..C_CAN_MSG_RX_LOW_LAST
c_can_activate_all_lower_rx_msg_obj(mo, ctrl_mask) ==
    [i \in MsgObjs |->
        IF i \in C_CAN_MSG_OBJ_RX_FIRST..C_CAN_MSG_RX_LOW_LAST
        THEN [mo[i] EXCEPT !.ctrl = ctrl_mask \ {"MSGLST", "INTPND", "NEWDAT"}]
        ELSE mo[i]]

\* c_can_handle_lost_msg_obj: the control word is written IF_MCONT_CLR_MSGLST,
\* which is 0, and put back
c_can_handle_lost_msg_obj(mo, objno) ==
    [mo EXCEPT ![objno].ctrl = {}]

Ev(kind, id) == [kind |-> kind, id |-> id]

\* the reactivation of c_can_do_rx_poll for a delivered object
RxReactivate(mo, ctrl_save, obj) ==
    IF obj < C_CAN_MSG_RX_LOW_LAST
    THEN c_can_mark_rx_msg_obj(mo, ctrl_save, obj)
    ELSE IF obj > C_CAN_MSG_RX_LOW_LAST
         THEN c_can_activate_rx_msg_obj(mo, ctrl_save, obj)
         ELSE c_can_activate_all_lower_rx_msg_obj(mo, ctrl_save)

\* the body of the c_can_do_rx_poll loop for an object whose bit was set in
\* the INTPND value read, with msg_ctrl_save and data what the interface
\* registers hold after c_can_object_get: [mo, evs, stop]
RxIterWith(mo, obj, msg_ctrl_save, data) ==
    IF "EOB" \in msg_ctrl_save
    THEN [mo |-> mo, evs |-> <<>>, stop |-> TRUE]
    ELSE IF "MSGLST" \in msg_ctrl_save
    THEN [mo |-> c_can_handle_lost_msg_obj(mo, obj),
          evs |-> <<Ev("overflow", obj)>>, stop |-> FALSE]
    ELSE IF "NEWDAT" \notin msg_ctrl_save
    THEN [mo |-> mo, evs |-> <<>>, stop |-> FALSE]
    ELSE [mo |-> RxReactivate(mo, msg_ctrl_save, obj),
          evs |-> <<Ev("frame", data)>>, stop |-> FALSE]

\* the same when the transfer to the interface registers has completed
RxIter(mo, obj) == RxIterWith(mo, obj, mo[obj].ctrl, mo[obj].data)

\* c_can_do_rx_poll with the hardware quiet during the pass: [mo, evs]
RECURSIVE RxPollFrom(_, _, _)
RxPollFrom(mo, obj, evs) ==
    IF obj > C_CAN_MSG_OBJ_RX_LAST THEN [mo |-> mo, evs |-> evs]
    ELSE IF HasBit(mo, obj, "INTPND")
         THEN LET r == RxIter(mo, obj) IN
              IF r.stop THEN [mo |-> r.mo, evs |-> evs]
              ELSE RxPollFrom(r.mo, obj + 1, evs \o r.evs)
         ELSE RxPollFrom(mo, obj + 1, evs)

c_can_do_rx_poll(mo) == RxPollFrom(mo, C_CAN_MSG_OBJ_RX_FIRST, <<>>)

\* rtcan_rcv calls as the log keeps them: with whether the pass held the
\* dispatch-list and socket locks at the call
Logged(evs, free) ==
    [i \in 1..Len(evs) |-> [kind |-> evs[i].kind, id |-> evs[i].id, locked |-> ~free]]

Frames(evs) == SelectSeq(evs, LAMBDA e : e.kind = "frame")

FrameIds(evs) == [i \in 1..Len(Frames(evs)) |-> Frames(evs)[i].id]


(***************************************************************************)
(* Bus state machine.  P is what a status-change pass works on:            *)
(* [state, ctrlreg, S, log, free, gets, lec, stsflags] with free the        *)
(* recv_lock_free flag and gets the times the two locks were taken.        *)
(***************************************************************************)
\* rtcan_rcv(dev, &skb)
rtcan_rcv(P, kind) ==
    [P EXCEPT !.log = Append(@, [kind |-> kind, id |-> 0, locked |-> ~P.free])]

\* a pass that takes the two locks for every event
GetRecvLocks_Always(P) == [P EXCEPT !.free = FALSE, !.gets = @ + 1]

\* if (recv_lock_free) { recv_lock_free = 0; lock both }
GetRecvLocks(P) ==
    IF P.free THEN [P EXCEPT !.free = FALSE, !.gets = @ + 1] ELSE P

\* a bus-off case that leaves the semaphore alone
c_can_handle_state_change_NoDestroy(P, error_type) ==
    CASE error_type = "C_CAN_ERROR_WARNING" ->
           rtcan_rcv([P EXCEPT !.state = "ERROR_WARNING"], "warning")
      [] error_type = "C_CAN_ERROR_PASSIVE" ->
           rtcan_rcv([P EXCEPT !.state = "ERROR_PASSIVE"], "passive")
      [] error_type = "C_CAN_BUS_OFF" ->
           rtcan_rcv([P EXCEPT !.state = "BUS_OFF",
                               !.ctrlreg = c_can_enable_all_interrupts(@, FALSE)],
                     "busoff")
      [] OTHER -> rtcan_rcv(P, "none")

\* c_can_handle_state_change
c_can_handle_state_change(P, error_type) ==
    CASE error_type = "C_CAN_ERROR_WARNING" ->
           rtcan_rcv([P EXCEPT !.state = "ERROR_WARNING"], "warning")
      [] error_type = "C_CAN_ERROR_PASSIVE" ->
           rtcan_rcv([P EXCEPT !.state = "ERROR_PASSIVE"], "passive")
      [] error_type = "C_CAN_BUS_OFF" ->
           rtcan_rcv([P EXCEPT !.state = "BUS_OFF",
                               !.ctrlreg = c_can_enable_all_interrupts(@, FALSE),
                               !.S = rtdm_sem_destroy(@)], "busoff")
      [] OTHER -> rtcan_rcv(P, "none")

\* a handler that delivers the bus-error event and leaves the LEC field alone
c_can_handle_bus_err_NoRewrite(P, lec_type) ==
    IF lec_type = LEC_UNUSED \/ lec_type = LEC_NO_ERROR THEN P
    ELSE rtcan_rcv(P, "buserr")

\* c_can_handle_bus_err: nothing for LEC_UNUSED and LEC_NO_ERROR, else the
\* status register is written LEC_UNUSED and a bus-error event is delivered
c_can_handle_bus_err(P, lec_type) ==
    IF lec_type = LEC_UNUSED \/ lec_type = LEC_NO_ERROR THEN P
    ELSE rtcan_rcv([P EXCEPT !.lec = LEC_UNUSED, !.stsflags = {}], "buserr")

\* an edge test that looks at the level of the flag only
Rising_Level(cur, last, flag) == flag \in cur

Rising(cur, last, flag) == flag \in cur /\ flag \notin last

\* a recovery test that never finds an edge
Falling_Never(cur, last, flag) == FALSE

Falling(cur, last, flag) == flag \notin cur /\ flag \in last

\* the STATUS_INTERRUPT branch of c_can_interrupt after the status register
\* has been read into cur (flags) and curlec
StatusBranch(P0, cur, curlec, last) ==
    LET Pa == IF "TXOK" \in cur
              THEN [P0 EXCEPT !.stsflags = (@ \ {"TXOK", "RXOK"}) \cup (cur \cap {"RXOK"})]
              ELSE P0
        Pb == IF "RXOK" \in cur
              THEN [Pa EXCEPT !.stsflags = (@ \ {"TXOK", "RXOK"}) \cup (cur \cap {"TXOK"})]
              ELSE Pa
        P1 == IF Rising(cur, last, "EWARN")
              THEN GetRecvLocks(c_can_handle_state_change(Pb, "C_CAN_ERROR_WARNING"))
              ELSE Pb
        P2 == IF Rising(cur, last, "EPASS")
              THEN GetRecvLocks(c_can_handle_state_change(P1, "C_CAN_ERROR_PASSIVE"))
              ELSE P1
        P3 == IF Rising(cur, last, "BOFF")
              THEN GetRecvLocks(c_can_handle_state_change(P2, "C_CAN_BUS_OFF"))
              ELSE P2
        P4 == IF Falling(cur, last, "BOFF")
              THEN [P3 EXCEPT !.state = "ERROR_ACTIVE"]
              ELSE P3
        P5 == IF Falling(cur, last, "EPASS")
              THEN [P4 EXCEPT !.state = "ERROR_ACTIVE"]
              ELSE P4
        P6 == IF curlec /= 0 THEN c_can_handle_bus_err(P5, curlec) ELSE P5
    IN GetRecvLocks(P6)

(***************************************************************************)
(* c_can_interrupt, one step per stretch between two points where another  *)
(* context or the hardware can act.                                        *)
(***************************************************************************)
\* priv->irqstatus = read(C_CAN_INT_REG); a zero value returns RTDM_IRQ_NONE;
\* then c_can_enable_all_interrupts(priv, DISABLE_ALL_INTERRUPTS)
IrqEntry ==
    /\ irq_pc = "idle"
    /\ irq_registered
    /\ "IE" \in ctrlreg
    /\ IntReg /= 0
    /\ tx_sem.value < MaxSemValue
    /\ irqstatus' = IntReg
    /\ ctrlreg' = c_can_enable_all_interrupts(ctrlreg, FALSE)
    /\ irq_pc' = "lock"
    /\ rcvLog' = <<>>
    /\ UNCHANGED <<state, stsreg, lec, sts_int, msgobj, txVars, irq_registered,
                   msg_obj, val_bit, recv_lock_free, lock_gets, lockVars, busVars,
                   delivered, hist>>
    /\ UNCHANGED codecVars

\* rtdm_lock_get(&dev->device_lock)
IrqLock ==
    /\ irq_pc = "lock"
    /\ device_lock = "free"
    /\ device_lock' = "irq"
    /\ irq_pc' = "dispatch"
    /\ UNCHANGED <<state, hwVars, txVars, irq_registered, irqstatus, msg_obj,
                   val_bit, recv_lock_free, lock_gets, recv_list_lock, socket_lock,
                   busVars, logVars>>
    /\ UNCHANGED codecVars

\* if (recv_lock_free) { recv_lock_free = 0; rtdm_lock_get of both locks }
RecvLocksTaken ==
    IF recv_lock_free
    THEN /\ recv_lock_free' = FALSE
         /\ recv_list_lock' = "irq"
         /\ socket_lock' = "irq"
         /\ lock_gets' = lock_gets + 1
    ELSE UNCHANGED <<recv_lock_free, recv_list_lock, socket_lock, lock_gets>>

\* the event c_can_handle_state_change hands to rtcan_rcv for a status flag
EventOf(flag) ==
    CASE flag = "EWARN" -> "warning"
      [] flag = "EPASS" -> "passive"
      [] flag = "BOFF" -> "busoff"

\* the events for a status flag among the rtcan_rcv calls log
EventsOf(log, flag) ==
    Cardinality({k \in 1..Len(log) : log[k].kind = EventOf(flag)})

\* the status branch: the read of the status register clears the pending
\* status interrupt.  hist.reported keeps the flags for which an event has
\* been handed over and which every pass since has seen set, hist.seen the
\* flags a pass has seen set since the last start
IrqStatus ==
    /\ irq_pc = "dispatch"
    /\ irqstatus = STATUS_INTERRUPT
    /\ LET P0 == [state |-> state, ctrlreg |-> ctrlreg, S |-> SemSt,
                  log |-> rcvLog, free |-> recv_lock_free, gets |-> lock_gets,
                  lec |-> lec, stsflags |-> stsreg]
           P == StatusBranch(P0, stsreg, lec, last_status)
       IN /\ current_status' = stsreg
          /\ last_status' = stsreg
          /\ state' = P.state
          /\ ctrlreg' = P.ctrlreg
          /\ tx_sem' = P.S.sem
          /\ sender' = P.S.snd
          /\ rcvLog' = P.log
          /\ lec' = P.lec
          /\ stsreg' = P.stsflags \cup (stsreg \cap StatusFlags)
          /\ hist' = [hist EXCEPT
                         !.reported = (@ \cap stsreg) \cup
                                      {f \in StatusFlags : EventsOf(P.log, f) > 0},
                         !.seen = @ \cup (stsreg \cap StatusFlags),
                         !.rose = @ \ stsreg]
          /\ recv_lock_free' = P.free
          /\ lock_gets' = P.gets
          /\ recv_list_lock' = (IF P.gets > lock_gets THEN "irq" ELSE recv_list_lock)
          /\ socket_lock' = (IF P.gets > lock_gets THEN "irq" ELSE socket_lock)
    /\ sts_int' = FALSE
    /\ irq_pc' = "unlock"
    /\ UNCHANGED <<msgobj, tx_next, tx_echo, irq_registered, irqstatus, msg_obj,
                   val_bit, device_lock, delivered>>
    /\ UNCHANGED codecVars

InRx(n) == n >= C_CAN_MSG_OBJ_RX_FIRST /\ n <= C_CAN_MSG_OBJ_RX_LAST

InTx(n) == n >= C_CAN_MSG_OBJ_TX_FIRST /\ n <= C_CAN_MSG_OBJ_TX_LAST

\* the receive branch with the hardware quiet while c_can_do_rx_poll runs
IrqRxPoll ==
    /\ irq_pc = "dispatch"
    /\ InRx(irqstatus)
    /\ LET r == c_can_do_rx_poll(msgobj) IN
         /\ msgobj' = r.mo
         /\ rcvLog' = rcvLog \o Logged(r.evs, recv_lock_free)
         /\ delivered' = delivered \o FrameIds(r.evs)
    /\ RecvLocksTaken
    /\ irq_pc' = "unlock"
    /\ UNCHANGED <<state, ctrlreg, stsreg, lec, sts_int, txVars, irq_registered,
                   irqstatus, msg_obj, val_bit, device_lock, busVars, hist>>
    /\ UNCHANGED codecVars

\* the receive branch, entry of c_can_do_rx_poll: val is read, msg_obj is
\* C_CAN_MSG_OBJ_RX_FIRST
IrqRxBegin ==
    /\ irq_pc = "dispatch"
    /\ InRx(irqstatus)
    /\ msg_obj' = C_CAN_MSG_OBJ_RX_FIRST
    /\ val_bit' = HasBit(msgobj, C_CAN_MSG_OBJ_RX_FIRST, "INTPND")
    /\ irq_pc' = "rx"
    /\ UNCHANGED <<state, hwVars, txVars, irq_registered, irqstatus,
                   recv_lock_free, lock_gets, lockVars, busVars, logVars>>
    /\ UNCHANGED codecVars

\* one iteration of the c_can_do_rx_poll loop on the val read before it,
\* then the loop's step: val is read again and msg_obj incremented; after
\* the loop (or its return at EOB) the receive locks are taken
IrqRxIter ==
    /\ irq_pc = "rx"
    /\ LET r == IF val_bit THEN RxIter(msgobj, msg_obj)
                ELSE [mo |-> msgobj, evs |-> <<>>, stop |-> FALSE]
           last == r.stop \/ msg_obj + 1 > C_CAN_MSG_OBJ_RX_LAST
       IN /\ msgobj' = r.mo
          /\ rcvLog' = rcvLog \o Logged(r.evs, recv_lock_free)
          /\ delivered' = delivered \o FrameIds(r.evs)
          /\ IF last
             THEN /\ RecvLocksTaken
                  /\ irq_pc' = "unlock"
                  /\ msg_obj' = 0
                  /\ val_bit' = FALSE
             ELSE /\ msg_obj' = msg_obj + 1
                  /\ val_bit' = HasBit(r.mo, msg_obj + 1, "INTPND")
                  /\ UNCHANGED <<irq_pc, recv_lock_free, lock_gets, recv_list_lock,
                                 socket_lock>>
    /\ UNCHANGED <<state, ctrlreg, stsreg, lec, sts_int, txVars, irq_registered,
                   irqstatus, device_lock, busVars, hist>>
    /\ UNCHANGED codecVars

\* the transmit branch; lb is rtcan_loopback_pending(dev)
IrqTx ==
    /\ irq_pc = "dispatch"
    /\ InTx(irqstatus)
    /\ LET r == c_can_do_tx(tx_next, tx_echo, msgobj, SemSt) IN
         /\ tx_echo' = r.echo
         /\ msgobj' = r.mo
         /\ tx_sem' = r.S.sem
         /\ sender' = r.S.snd
         /\ hist' = [hist EXCEPT !.woken = @ \/ Len(r.S.sem.waitq) < Len(tx_sem.waitq)]
    /\ \E lb \in BOOLEAN :
         IF lb THEN RecvLocksTaken
         ELSE UNCHANGED <<recv_lock_free, lock_gets, recv_list_lock, socket_lock>>
    /\ irq_pc' = "unlock"
    /\ UNCHANGED <<state, ctrlreg, stsreg, lec, sts_int, tx_next, irq_registered,
                   irqstatus, msg_obj, val_bit, device_lock, busVars, rcvLog,
                   delivered>>
    /\ UNCHANGED codecVars

\* a whole pass of c_can_interrupt taking the transmit branch, run without
\* another context or the hardware acting in between: entry, interrupts
\* disabled, c_can_do_tx under the device lock, interrupts enabled
IrqTxPass ==
    /\ irq_pc = "idle"
    /\ irq_registered
    /\ "IE" \in ctrlreg
    /\ InTx(IntReg)
    /\ tx_sem.value < MaxSemValue
    /\ device_lock = "free"
    /\ LET r == c_can_do_tx(tx_next, tx_echo, msgobj, SemSt) IN
         /\ tx_echo' = r.echo
         /\ msgobj' = r.mo
         /\ tx_sem' = r.S.sem
         /\ sender' = r.S.snd
         /\ hist' = [hist EXCEPT !.woken = @ \/ Len(r.S.sem.waitq) < Len(tx_sem.waitq)]
    /\ ctrlreg' = c_can_enable_all_interrupts(
                      c_can_enable_all_interrupts(ctrlreg, FALSE), TRUE)
    /\ rcvLog' = <<>>
    /\ UNCHANGED <<state, stsreg, lec, sts_int, tx_next, irq_registered, irqVars,
                   lockVars, busVars, delivered>>
    /\ UNCHANGED codecVars

\* if (!recv_lock_free): the socket lock and the dispatch-list lock are put
IrqUnlock ==
    /\ irq_pc = "unlock"
    /\ IF ~recv_lock_free
       THEN socket_lock' = "free" /\ recv_list_lock' = "free"
       ELSE UNCHANGED <<socket_lock, recv_list_lock>>
    /\ irq_pc' = "unlockdev"
    /\ UNCHANGED <<state, hwVars, txVars, irq_registered, irqstatus, msg_obj,
                   val_bit, recv_lock_free, lock_gets, device_lock, busVars, logVars>>
    /\ UNCHANGED codecVars

\* an exit that keeps dev->device_lock
IrqUnlockDevice_KeepLock ==
    /\ irq_pc = "unlockdev"
    /\ irq_pc' = "enable"
    /\ UNCHANGED <<state, hwVars, txVars, irq_registered, irqstatus, msg_obj,
                   val_bit, recv_lock_free, lock_gets, lockVars, busVars, logVars,
                   codecVars>>

\* rtdm_lock_put(&dev->device_lock)
IrqUnlockDevice ==
    /\ irq_pc = "unlockdev"
    /\ device_lock' = "free"
    /\ irq_pc' = "enable"
    /\ UNCHANGED <<state, hwVars, txVars, irq_registered, irqstatus, msg_obj,
                   val_bit, recv_lock_free, lock_gets, recv_list_lock, socket_lock,
                   busVars, logVars>>
    /\ UNCHANGED codecVars

\* c_can_enable_all_interrupts(priv, ENABLE_ALL_INTERRUPTS); return ret.
\* priv->irqstatus and the local recv_lock_free are dead from here to the
\* next entry, which writes both: they are put back to their entry values,
\* and so is the count of the lock acquisitions of the pass
IrqEnable ==
    /\ irq_pc = "enable"
    /\ ctrlreg' = c_can_enable_all_interrupts(ctrlreg, TRUE)
    /\ irq_pc' = "idle"
    /\ irqstatus' = 0
    /\ recv_lock_free' = TRUE
    /\ lock_gets' = 0
    /\ UNCHANGED <<state, stsreg, lec, sts_int, msgobj, txVars, irq_registered,
                   msg_obj, val_bit, lockVars, busVars, logVars>>
    /\ UNCHANGED codecVars

(***************************************************************************)
(* Specifications.                                                         *)
(***************************************************************************)
\* the device as c_can_plat_probe leaves it: CAN_STATE_STOPPED
Probed ==
    /\ state = "STOPPED"
    /\ ctrlreg = {}
    /\ stsreg = {}
    /\ lec = LEC_NO_ERROR
    /\ sts_int = FALSE
    /\ msgobj = [i \in MsgObjs |-> InvalidObj]
    /\ tx_next = 0
    /\ tx_echo = 0
    /\ tx_sem = NoSem
    /\ sender = [s \in Senders |-> "idle"]
    /\ irq_registered = FALSE
    /\ irq_pc = "idle"
    /\ irqstatus = 0
    /\ msg_obj = 0
    /\ val_bit = FALSE
    /\ recv_lock_free = TRUE
    /\ lock_gets = 0
    /\ device_lock = "free"
    /\ recv_list_lock = "free"
    /\ socket_lock = "free"
    /\ current_status = {}
    /\ last_status = {}
    /\ rcvLog = <<>>
    /\ delivered = <<>>
    /\ hist = [arrivals |-> 0, stchanges |-> 0, acquires |-> 0, overwrote |-> FALSE,
               woken |-> FALSE, start_err |-> FALSE, stopreq |-> 0, stopdone |-> 0,
               reported |-> {}, rose |-> {}, seen |-> {},
               polls |-> 0, timeouts |-> 0]

Init ==
    /\ Probed
    /\ cf = NoFrame
    /\ ifregs = ZeroRegs
    /\ skb = NoFrame
    /\ bit_time = StoredBitTime
    /\ btregs = NoBtRegs

\* the transmit path: start, submission contexts, transmit completions and
\* interrupt passes
NextTx ==
    \/ ModeStart
    \/ Acquire
    \/ StartXmit
    \/ HwTxComplete
    \/ IrqTxPass

SpecTx == Init /\ [][NextTx]_vars

RECURSIVE WriteFrames(_, _, _)
WriteFrames(mo, next, n) ==
    IF next >= n THEN mo
    ELSE WriteFrames(c_can_write_msg_object(mo, get_tx_next_msg_obj(next), next),
                     next + 1, n)

\* the chip as c_can_chip_config leaves the one c_can_plat_probe hands over
ConfiguredHw ==
    c_can_chip_config([ctrlreg |-> {}, stsreg |-> {}, lec |-> LEC_NO_ERROR,
                       msgobj |-> [i \in MsgObjs |-> InvalidObj],
                       btregs |-> NoBtRegs, bit_time |-> StoredBitTime])

\* a started device (c_can_mode_start from CAN_STATE_STOPPED) with the
\* message objects mo, next frames submitted, the semaphore sem, the
\* submission contexts snd after acq calls of rtdm_sem_down, echo frames
\* sent and acknowledged
StartedAt(mo, next, echo, sem, snd, acq) ==
    /\ state = "ERROR_ACTIVE"
    /\ ctrlreg = c_can_enable_all_interrupts(ConfiguredHw.ctrlreg, TRUE)
    /\ stsreg = ConfiguredHw.stsreg
    /\ lec = ConfiguredHw.lec
    /\ sts_int = FALSE
    /\ msgobj = mo
    /\ tx_next = next
    /\ tx_echo = echo
    /\ tx_sem = sem
    /\ sender = snd
    /\ irq_registered = TRUE
    /\ irq_pc = "idle"
    /\ irqstatus = 0
    /\ msg_obj = 0
    /\ val_bit = FALSE
    /\ recv_lock_free = TRUE
    /\ lock_gets = 0
    /\ device_lock = "free"
    /\ recv_list_lock = "free"
    /\ socket_lock = "free"
    /\ current_status = {}
    /\ last_status = {}
    /\ rcvLog = <<>>
    /\ delivered = <<>>
    /\ hist = [arrivals |-> 0, stchanges |-> 0, acquires |-> acq,
               overwrote |-> FALSE, woken |-> FALSE, start_err |-> FALSE,
               stopreq |-> 0, stopdone |-> 0,
               reported |-> {}, rose |-> {}, seen |-> {},
               polls |-> 0, timeouts |-> 0]
    /\ cf = NoFrame
    /\ ifregs = ZeroRegs
    /\ skb = NoFrame
    /\ bit_time = ConfiguredHw.bit_time
    /\ btregs = ConfiguredHw.btregs

\* the same with no frame acknowledged yet
Started(mo, next, sem, snd, acq) == StartedAt(mo, next, 0, sem, snd, acq)

\* the state a start, C_CAN_MSG_OBJ_TX_NUM submissions and one more
\* rtdm_sem_down by every context lead to when no frame has gone out yet:
\* the ring is full, the semaphore is at 0, every context sleeps on it
InitTxFull ==
    Started(WriteFrames(ConfiguredHw.msgobj, 0, C_CAN_MSG_OBJ_TX_NUM),
            C_CAN_MSG_OBJ_TX_NUM,
            [alive |-> TRUE, value |-> 0, waitq |-> [i \in 1..NumSenders |-> i]],
            [s \in Senders |-> "waiting"],
            C_CAN_MSG_OBJ_TX_NUM + NumSenders)

NextTxRun ==
    \/ StartXmit
    \/ HwTxComplete
    \/ IrqTxPass

\* the transmit path from a full ring on, where every frame written to the
\* ring goes out, every transmit interrupt is served, and a context that
\* holds a unit submits
SpecTxLive ==
    /\ InitTxFull
    /\ [][NextTxRun]_vars
    /\ WF_vars(HwTxComplete)
    /\ WF_vars(IrqTxPass)
    /\ WF_vars(StartXmit)

(***************************************************************************)
(* Transmit admission.                                                     *)
(***************************************************************************)
Holders == Cardinality({s \in Senders : sender[s] = "holding"})

Waiters == {s \in Senders : sender[s] = "waiting"}

\* units a step hands out: added to the value or given to a sleeper
Released ==
    (tx_sem'.value - tx_sem.value) + (Len(tx_sem.waitq) - Len(tx_sem'.waitq))

\* C1: in every state after start the available admission units plus the
\* frames in flight (tx_next - tx_echo) are at most 16
C1_UnitsWithinRing ==
    tx_sem.alive => tx_sem.value + (tx_next - tx_echo) <= C_CAN_MSG_OBJ_TX_NUM

\* C4: as long as no drain pass has found a slot with the transmit request
\* clear (tx_echo is still 0) the units handed out and the units left add up
\* to 16, so after 16 submits the counter is 0 and nobody holds a 17th unit
C4_SeventeenthBlocked ==
    (tx_sem.alive /\ tx_echo = 0) =>
        /\ tx_sem.value + Holders + tx_next = C_CAN_MSG_OBJ_TX_NUM
        /\ (tx_next = C_CAN_MSG_OBJ_TX_NUM => tx_sem.value = 0 /\ Holders = 0)

\* 16 frames submitted, none drained, and a context blocked on the 17th unit
C4_Witness ==
    /\ tx_next = C_CAN_MSG_OBJ_TX_NUM
    /\ tx_echo = 0
    /\ tx_sem.value = 0
    /\ Waiters /= {}

\* C5: a drain pass that drains k slots releases k units, and one more when
\* tx_echo is a multiple of 16 after the pass
C5_DrainReleases ==
    [][IrqTxPass =>
         Released = (tx_echo' - tx_echo)
                    + (IF tx_echo' % C_CAN_MSG_OBJ_TX_NUM = 0 THEN 1 ELSE 0)]_vars

\* C6: a submission context waiting on the admission counter eventually
\* acquires a unit
C6_NoProducerStall ==
    \A s \in Senders : (sender[s] = "waiting") ~> (sender[s] = "holding")

\* a sleeper has been handed a unit by a drain pass and holds it
C6_Witness ==
    /\ hist.woken
    /\ Holders > 0
    /\ tx_sem.value = 0

(***************************************************************************)
(* Receive path.                                                           *)
(***************************************************************************)
\* start, frames arriving on the bus, and interrupt passes whose receive
\* drain runs object by object while the hardware goes on storing frames
NextRx ==
    \/ ModeStart
    \/ HwRxArrive
    \/ IrqEntry
    \/ IrqLock
    \/ IrqRxBegin
    \/ IrqRxIter
    \/ IrqUnlock
    \/ IrqUnlockDevice
    \/ IrqEnable

SpecRx == Init /\ [][NextRx]_vars

Range(seq) == {seq[i] : i \in 1..Len(seq)}

\* C2: frames are handed to rtcan_rcv in the order they arrived on the bus
C2_InOrderDelivery ==
    \A i, j \in 1..Len(delivered) : i < j => delivered[i] < delivered[j]

\* receive object i holds a frame that rtcan_rcv has not been given
Undelivered(i) ==
    /\ HasBit(msgobj, i, "NEWDAT")
    /\ msgobj[i].data \notin Range(delivered)

\* C3: no step clears NEWDAT or INTPND on a receive object holding a frame
\* not yet handed to rtcan_rcv, unless that frame is handed over in the step
\* or the hardware has flagged the object MSGLST
C3_NoSilentLoss ==
    [][\A i \in RxObjs :
          Undelivered(i) =>
             \/ msgobj[i].data \in Range(delivered')
             \/ HasBit(msgobj, i, "MSGLST")
             \/ /\ HasBit(msgobj', i, "NEWDAT")
                /\ HasBit(msgobj, i, "INTPND") => HasBit(msgobj', i, "INTPND")]_vars

(***************************************************************************)
(* The device over its life: start, stop, changes of the bus state and the *)
(* interrupt passes that serve them.                                       *)
(***************************************************************************)
Next ==
    \/ ModeStart
    \/ ModeStop
    \/ HwStatusChange
    \/ IrqEntry
    \/ IrqLock
    \/ IrqStatus
    \/ IrqUnlock
    \/ IrqUnlockDevice
    \/ IrqEnable

Spec == Init /\ [][Next]_vars

\* bus state changes with the transmit ring full and every submission
\* context asleep on the semaphore
NextBusOff ==
    \/ ModeStart
    \/ HwStatusChange
    \/ Acquire
    \/ StartXmit
    \/ IrqEntry
    \/ IrqLock
    \/ IrqStatus
    \/ IrqUnlock
    \/ IrqUnlockDevice
    \/ IrqEnable

SpecBusOff == InitTxFull /\ [][NextBusOff]_vars

\* C7: once the pass that found the bus-off rising edge has returned, the
\* SIE, EIE and IE bits of the control register are clear for as long as the
\* device stays in CAN_STATE_BUS_OFF
C7_BusOffIrqsOff ==
    (state = "BUS_OFF" /\ irq_pc = "idle") => ctrlreg \cap IntBits = {}

\* C9: every rtcan_rcv call of an interrupt pass is made with the
\* dispatch-list and socket locks held
C9_RcvUnderLocks ==
    \A k \in 1..Len(rcvLog) : rcvLog[k].locked

\* C8: the step that handles a bus-off rising edge leaves no context asleep
\* on the semaphore: each sleeper is abandoned, none holds a unit, nothing
\* is written to the ring; and nobody sleeps on a destroyed semaphore
C8_BusOffAbandonsWaiters ==
    [][/\ (IrqStatus /\ Rising(stsreg, last_status, "BOFF")) =>
             /\ \A s \in Senders :
                   sender[s] = "waiting" => sender'[s] = "abandoned"
             /\ tx_sem'.waitq = <<>>
             /\ tx_next' = tx_next
             /\ msgobj' = msgobj
       /\ ~tx_sem'.alive => \A s \in Senders : sender'[s] /= "waiting"]_vars

\* bus-off has been handled with the ring full and every context asleep:
\* all of them are abandoned and the ring still holds the 16 frames
C8_Witness ==
    /\ state = "BUS_OFF"
    /\ \A s \in Senders : sender[s] = "abandoned"
    /\ tx_next = C_CAN_MSG_OBJ_TX_NUM
    /\ hist.acquires = C_CAN_MSG_OBJ_TX_NUM + NumSenders

(***************************************************************************)
(* Drain of a given receive pool.                                          *)
(***************************************************************************)
PoolSlots == C_CAN_MSG_OBJ_RX_FIRST..MaxPoolSlot

\* the receive objects after start with a frame (numbered as its object) in
\* the objects N, of which the objects I are still interrupt-pending
PoolWith(N, I) ==
    [i \in MsgObjs |->
        IF i \in N
        THEN [ConfiguredHw.msgobj[i] EXCEPT
                 !.ctrl = @ \cup {"NEWDAT"} \cup (IF i \in I THEN {"INTPND"} ELSE {}),
                 !.data = i]
        ELSE ConfiguredHw.msgobj[i]]

InitRxPool ==
    \E N \in SUBSET PoolSlots : \E I \in SUBSET N :
        Started(PoolWith(N, I), 0,
                [alive |-> TRUE, value |-> C_CAN_MSG_OBJ_TX_NUM, waitq |-> <<>>],
                [s \in Senders |-> "idle"], 0)

\* one interrupt pass over the pool while the bus is quiet
NextRxPool ==
    \/ IrqEntry
    \/ IrqLock
    \/ IrqRxPoll
    \/ IrqUnlock
    \/ IrqUnlockDevice
    \/ IrqEnable

SpecRxPool == InitRxPool /\ [][NextRxPool]_vars

\* the drain of a pool in which object b is interrupt-pending with NEWDAT
\* set clears NEWDAT on the objects 1..b and leaves the control words of
\* the objects above b up to 15 alone when they are not pending
BoundaryDrain(b) ==
    (IrqRxPoll /\ HasBit(msgobj, b, "INTPND") /\ HasBit(msgobj, b, "NEWDAT")) =>
        /\ \A i \in C_CAN_MSG_OBJ_RX_FIRST..b : ~HasBit(msgobj', i, "NEWDAT")
        /\ \A i \in (b + 1)..(C_CAN_MSG_OBJ_RX_LAST - 1) :
              ~HasBit(msgobj, i, "INTPND") => msgobj'[i] = msgobj[i]

TxFullReached == ~InitTxFull


(***************************************************************************)
(* Drain of a receive pool in which an object is flagged MSGLST.           *)
(***************************************************************************)
\* the objects 1..MaxLostSlot are the ones that hold frames in such a pool
MaxLostSlot == 6

LostSlots == C_CAN_MSG_OBJ_RX_FIRST..MaxLostSlot

\* the pool PoolWith(N, I) in which the core has overwritten the frame of
\* object L and flagged it MSGLST
PoolLost(N, I, L) ==
    [PoolWith(N, I) EXCEPT ![L].ctrl = @ \cup {"MSGLST"}]

InitRxLost ==
    \E N \in SUBSET LostSlots : \E I \in SUBSET N : \E L \in I :
        Started(PoolLost(N, I, L), 0,
                [alive |-> TRUE, value |-> C_CAN_MSG_OBJ_TX_NUM, waitq |-> <<>>],
                [s \in Senders |-> "idle"], 0)

SpecRxLost == InitRxLost /\ [][NextRxPool]_vars

\* the receive-overflow events of rtcan_rcv calls log for object i
OverflowsFor(log, i) ==
    Cardinality({k \in 1..Len(log) : log[k].kind = "overflow" /\ log[k].id = i})

\* C11: a drain pass over a pool in which a receive object is
\* interrupt-pending with MSGLST set hands exactly one receive-overflow event
\* for it to rtcan_rcv and leaves the object set up for reception: MSGVAL
\* set, RXIE and UMASK set in its control word, MSGLST clear
C11_LostKeepsConfigured ==
    [][IrqRxPoll =>
         \A i \in RxObjs :
            (HasBit(msgobj, i, "INTPND") /\ HasBit(msgobj, i, "MSGLST")) =>
                /\ OverflowsFor(rcvLog', i) = 1
                /\ msgobj'[i].msgval
                /\ HasBit(msgobj', i, "RXIE")
                /\ HasBit(msgobj', i, "UMASK")
                /\ ~HasBit(msgobj', i, "MSGLST")]_vars


(***************************************************************************)
(* Delivery of received frames.                                            *)
(***************************************************************************)
\* C12: rtcan_rcv is given a received frame at most once: an object whose
\* frame has been handed over (an object below the boundary that is held
\* with NEWDAT kept included) is not handed over again, by the same or by a
\* later drain pass, before the core has stored a new frame in it
C12_DeliveredOnce ==
    \A i, j \in 1..Len(delivered) : i /= j => delivered[i] /= delivered[j]

\* frames 1 and 2 were handed over by earlier passes and objects 1 and 2 are
\* held with NEWDAT kept; a later pass, raised by frame 3, has gone over
\* object 1 and is about to go over object 2
C12_Witness ==
    /\ irq_pc = "rx"
    /\ msg_obj = 2
    /\ delivered = <<1, 2>>
    /\ msgobj[1].data = 1 /\ HasBit(msgobj, 1, "NEWDAT")
    /\ msgobj[2].data = 2 /\ HasBit(msgobj, 2, "NEWDAT")
    /\ HasBit(msgobj, 3, "INTPND")


(***************************************************************************)
(* A stop request against interrupt passes.                                *)
(***************************************************************************)
NextStop ==
    \/ ModeStart
    \/ HwStatusChange
    \/ StopRequest
    \/ StopLock
    \/ StopRun
    \/ IrqEntry
    \/ IrqLock
    \/ IrqStatus
    \/ IrqUnlock
    \/ IrqUnlockDevice
    \/ IrqEnable

\* a context that runs goes on running: the interrupt pass and the stopping
\* context each take their next step, a lock that stays free is taken
SpecStop ==
    /\ Init
    /\ [][NextStop]_vars
    /\ WF_vars(IrqLock)
    /\ WF_vars(IrqStatus)
    /\ WF_vars(IrqUnlock)
    /\ WF_vars(IrqUnlockDevice)
    /\ WF_vars(IrqEnable)
    /\ WF_vars(StopLock)
    /\ WF_vars(StopRun)

\* device lock outside, dispatch-list and socket locks inside, and nobody
\* waits for the device lock while holding one of the inner locks
LockOrder ==
    /\ recv_list_lock /= "free" => device_lock = "irq"
    /\ socket_lock /= "free" => recv_list_lock /= "free"
    /\ irq_pc = "lock" => (recv_list_lock = "free" /\ socket_lock = "free")
    /\ device_lock = "stop" => (recv_list_lock = "free" /\ socket_lock = "free")

StopPending == hist.stopreq > hist.stopdone

\* C13: a stop request made while an interrupt pass is in flight cannot
\* deadlock: the locks are always taken in the order device lock, dispatch-list
\* lock, socket lock, nobody waits for a lock while holding a later one, and
\* both the stop request and the interrupt pass run to completion
C13_StopNoDeadlock ==
    /\ []LockOrder
    /\ StopPending ~> ~StopPending
    /\ (irq_pc /= "idle") ~> (irq_pc = "idle")

\* the stopping context waits for the device lock while the interrupt pass
\* holds it together with the dispatch-list and socket locks
C13_Witness ==
    /\ StopPending
    /\ device_lock = "irq"
    /\ recv_list_lock = "irq"
    /\ socket_lock = "irq"
    /\ irq_pc = "unlock"


(***************************************************************************)
(* Mode controller contracts.                                              *)
(***************************************************************************)
FreshSem == [alive |-> TRUE, value |-> C_CAN_MSG_OBJ_TX_NUM, waitq |-> <<>>]

\* the message objects are as c_can_configure_msg_objects leaves them
ObjectsConfigured(mo) ==
    \A i \in MsgObjs :
        /\ mo[i].msgval = ConfiguredHw.msgobj[i].msgval
        /\ mo[i].ctrl = ConfiguredHw.msgobj[i].ctrl

\* what a start from CAN_STATE_STOPPED leaves
StartedFresh ==
    /\ state' = "ERROR_ACTIVE"
    /\ tx_next' = 0
    /\ tx_echo' = 0
    /\ tx_sem' = FreshSem
    /\ ObjectsConfigured(msgobj')
    /\ IntBits \subseteq ctrlreg'

\* C14: a start from CAN_STATE_BUS_OFF leaves the device as a start from
\* CAN_STATE_STOPPED does: CAN_STATE_ERROR_ACTIVE, tx_next = tx_echo = 0, a
\* fresh semaphore of 16 units, the 32 objects invalidated and the receive
\* objects set up, all interrupts enabled, the interrupt handler registered
C14_StartFromBusOff ==
    [][(ModeStart /\ state = "BUS_OFF") => (StartedFresh /\ irq_registered')]_vars

\* C15: a start in an operating state changes no register, tx_next, tx_echo
\* or the semaphore; a start from CAN_STATE_STOPPED or CAN_STATE_BUS_OFF that
\* returns no error ends in CAN_STATE_ERROR_ACTIVE with tx_next = tx_echo = 0,
\* the semaphore at 16 and all interrupts enabled
C15_StartContract ==
    [][ModeStart =>
         /\ CAN_STATE_OPERATING(state) =>
                UNCHANGED <<state, hwVars, btregs, tx_next, tx_echo, tx_sem>>
         /\ (state \in {"STOPPED", "BUS_OFF"} /\ ~hist'.start_err) => StartedFresh]_vars

\* the device has been started again after a bus-off: it is in
\* CAN_STATE_ERROR_ACTIVE with a live semaphore while the last status the
\* interrupt pass saw still has STATUS_BOFF
C15_Witness ==
    /\ "BOFF" \in last_status
    /\ state = "ERROR_ACTIVE"
    /\ tx_sem = FreshSem
    /\ IntBits \subseteq ctrlreg
    /\ tx_next = 0 /\ tx_echo = 0

\* C17: when rtdm_irq_request fails in a start from CAN_STATE_STOPPED the
\* error is returned and nothing else has changed: state, registers and
\* message objects, tx_next, tx_echo, no semaphore, no handler
C17_FailedStartUnchanged ==
    [][(c_can_mode_start(TRUE) /\ state = "STOPPED") =>
         /\ hist'.start_err
         /\ UNCHANGED <<state, hwVars, btregs, txVars, irq_registered>>]_vars

\* a start has failed on a device that had been started and stopped before
C17_Witness ==
    /\ hist.start_err
    /\ state = "STOPPED"
    /\ ~irq_registered
    /\ ~tx_sem.alive
    /\ ctrlreg \cap IntBits = {}
    /\ ObjectsConfigured(msgobj)

\* C20: the semaphore exists (initialised and not destroyed) exactly when
\* the device is in CAN_STATE_ERROR_ACTIVE, CAN_STATE_ERROR_WARNING or
\* CAN_STATE_ERROR_PASSIVE
C20_SemIffOperating ==
    tx_sem.alive <=> CAN_STATE_OPERATING(state)

(***************************************************************************)
(* Start and stop with the transmit ring in use.                           *)
(***************************************************************************)
\* bus state changes, start and stop with the ring full and every
\* submission context asleep on the semaphore
NextModeTx ==
    \/ ModeStart
    \/ ModeStop
    \/ HwStatusChange
    \/ Acquire
    \/ StartXmit
    \/ IrqEntry
    \/ IrqLock
    \/ IrqStatus
    \/ IrqUnlock
    \/ IrqUnlockDevice
    \/ IrqEnable

SpecModeTx == InitTxFull /\ [][NextModeTx]_vars

\* C16: a stop in a state that is not operating changes nothing; a stop in
\* an operating state disables all interrupts, sets CAN_STATE_STOPPED,
\* destroys the semaphore so that every sleeper is abandoned, and frees the
\* interrupt handler
C16_StopContract ==
    [][ModeStop =>
         IF ~CAN_STATE_OPERATING(state)
         THEN UNCHANGED <<state, hwVars, txVars, irq_registered>>
         ELSE /\ ctrlreg' \cap IntBits = {}
              /\ state' = "STOPPED"
              /\ ~tx_sem'.alive
              /\ tx_sem'.waitq = <<>>
              /\ \A s \in Senders :
                    sender[s] = "waiting" => sender'[s] = "abandoned"
              /\ \A s \in Senders : sender'[s] /= "waiting"
              /\ ~irq_registered']_vars

\* the device has been stopped with the ring full and every context asleep
C16_Witness ==
    /\ state = "STOPPED"
    /\ \A s \in Senders : sender[s] = "abandoned"
    /\ tx_next = C_CAN_MSG_OBJ_TX_NUM
    /\ ~irq_registered
    /\ ctrlreg \cap IntBits = {}


(***************************************************************************)
(* Frame codec.                                                            *)
(***************************************************************************)
\* identifiers: the ends of the standard and of the extended range, and
\* patterns with bits in both halves of the arbitration field
CodecIds == {0, 1, 291, 1365, CAN_SFF_MASK, CAN_SFF_MASK + 1, 305419896, CAN_EFF_MASK}

Payloads ==
    {<<1, 2, 3, 4, 5, 6, 7, 8>>, <<255, 255, 255, 255, 255, 255, 255, 255>>,
     <<0, 0, 0, 0, 0, 0, 0, 0>>, <<128, 1, 127, 254, 16, 32, 64, 170>>}

\* standard frames carry an 11-bit identifier
CodecFrames ==
    {f \in [id : CodecIds, eff : BOOLEAN, rtr : BOOLEAN,
            can_dlc : 0..CAN_MAX_DLC, data : Payloads] :
        f.eff \/ f.id <= CAN_SFF_MASK}

\* interface registers left by an earlier transfer
StaleRegs == [arb1 |-> 65535, arb2 |-> 65535, msgctrl |-> 65535,
              data |-> <<65535, 65535, 65535, 65535>>]

InitCodec ==
    /\ Probed
    /\ cf \in CodecFrames
    /\ ifregs \in {ZeroRegs, StaleRegs}
    /\ skb = NoFrame
    /\ bit_time = StoredBitTime
    /\ btregs = NoBtRegs

\* c_can_write_msg_object fills the interface registers from cf
WriteMsgObject ==
    /\ ifregs' = c_can_write_msg_object_if(ifregs, cf)
    /\ UNCHANGED <<state, hwVars, txVars, irq_registered, irqVars, lockVars,
                   busVars, logVars, cf, skb, bit_time, btregs>>

\* c_can_read_msg_object decodes what the interface registers hold, with the
\* message control register as ctrl
ReadMsgObject ==
    /\ ifregs = c_can_write_msg_object_if(ifregs, cf)
    /\ skb' = c_can_read_msg_object(ifregs, ifregs.msgctrl)
    /\ UNCHANGED <<state, hwVars, txVars, irq_registered, irqVars, lockVars,
                   busVars, logVars, cf, ifregs, bit_time, btregs>>

NextCodec ==
    \/ WriteMsgObject
    \/ ReadMsgObject

SpecCodec == InitCodec /\ [][NextCodec]_vars

\* the first n payload bytes of frames a and b are the same
SamePayload(a, b, n) == \A i \in 1..n : a.data[i] = b.data[i]

BitTime(brp, sjw, prop_seg, phase_seg1, phase_seg2) ==
    [brp |-> brp, sjw |-> sjw, prop_seg |-> prop_seg,
     phase_seg1 |-> phase_seg1, phase_seg2 |-> phase_seg2]

\* every prescaler with the segments at the ends of their ranges, and every
\* combination of segments with the prescaler at the ends of its range and
\* around the 6-bit boundaries
BitTimes ==
    {BitTime(b, s, p, p, q) :
        b \in brp_min..MaxBrpDraw, s \in {1, sjw_max},
        p \in {1, tseg1_max \div 2}, q \in {tseg2_min, tseg2_max}}
    \cup
    {BitTime(b, s, p1, p2, q) :
        b \in {brp_min, BTR_BRP_MASK + 1, BTR_BRP_MASK + 2, brp_max},
        s \in 1..sjw_max, p1 \in 1..(tseg1_max \div 2),
        p2 \in 1..(tseg1_max \div 2), q \in tseg2_min..tseg2_max}

\* c_can_save_bit_time has stored a bit time on the stopped device
InitBitTime ==
    /\ Probed
    /\ cf = NoFrame
    /\ ifregs = ZeroRegs
    /\ skb = NoFrame
    /\ bit_time \in BitTimes
    /\ btregs = NoBtRegs

\* the start writes the bit timing registers (c_can_chip_config calls
\* c_can_set_bittiming)
NextBitTime == ModeStart

SpecBitTime == InitBitTime /\ [][NextBitTime]_vars

\* the ranges of c_can_bittiming_const
BitTimeInRange(bt) ==
    /\ bt.sjw >= 1 /\ bt.sjw <= sjw_max
    /\ bt.prop_seg + bt.phase_seg1 >= tseg1_min
    /\ bt.prop_seg + bt.phase_seg1 <= tseg1_max
    /\ bt.phase_seg2 >= tseg2_min /\ bt.phase_seg2 <= tseg2_max
    /\ bt.brp >= brp_min /\ bt.brp <= brp_max

\* the fields of the bit timing register, by their masks and shifts
BtrBrp(r) == BitAnd(r.btr, BTR_BRP_MASK)

BtrSjw(r) == BitAnd(Shr(r.btr, BTR_SJW_SHIFT), 3)

BtrTseg1(r) == BitAnd(Shr(r.btr, BTR_TSEG1_SHIFT), 15)

BtrTseg2(r) == BitAnd(Shr(r.btr, BTR_TSEG2_SHIFT), 7)

BrpeField(r) == BitAnd(r.brpe, BRP_EXT_BRPE_MASK)

\* C19: for a bit time in the documented ranges the registers written by
\* c_can_set_bittiming decode back to the same prescaler, sjw, tseg1 and
\* tseg2: every field fits its width, no field overlaps another, and
\* prescaler - 1 = extension * 64 + prescaler field
C19_BitTimingRoundTrip ==
    (state = "ERROR_ACTIVE" /\ BitTimeInRange(bit_time)) =>
        /\ (BTR_BRP_MASK + 1) * BrpeField(btregs) + BtrBrp(btregs) = bit_time.brp - 1
        /\ BtrSjw(btregs) = bit_time.sjw - 1
        /\ BtrTseg1(btregs) = bit_time.prop_seg + bit_time.phase_seg1 - 1
        /\ BtrTseg2(btregs) = bit_time.phase_seg2 - 1
        /\ btregs.btr = BtrBrp(btregs) + Shl(BtrSjw(btregs), BTR_SJW_SHIFT)
                        + Shl(BtrTseg1(btregs), BTR_TSEG1_SHIFT)
                        + Shl(BtrTseg2(btregs), BTR_TSEG2_SHIFT)
        /\ btregs.brpe = BrpeField(btregs)

\* the device has been started with every input at the top of its range:
\* all fields of both registers are at their maximum
C19_Witness ==
    /\ state = "ERROR_ACTIVE"
    /\ bit_time = BitTime(brp_max, sjw_max, tseg1_max \div 2, tseg1_max \div 2, tseg2_max)
    /\ btregs = [btr |-> 32767, brpe |-> 15]


(***************************************************************************)
(* The transmit drain pass.                                                *)
(***************************************************************************)
\* the scan of the pass stopped at an object whose transmit request is set
ScanStalled == tx_echo' < tx_next

\* units the pass hands out after its scan
ExtraUnits == Released - (IF ScanStalled THEN 1 ELSE 0)

\* C21: after its scan a transmit-drain pass releases one extra unit exactly
\* when tx_next is a multiple of 16 or tx_echo is a multiple of 16, and none
\* in any other case
C21_ExtraUnitOnBoundary ==
    [][IrqTxPass =>
         ExtraUnits = (IF \/ tx_next % C_CAN_MSG_OBJ_TX_NUM = 0
                          \/ tx_echo' % C_CAN_MSG_OBJ_TX_NUM = 0
                       THEN 1 ELSE 0)]_vars

\* the ring positions tx_echo .. tx_echo' - 1 the pass has gone over
Scanned == tx_echo..(tx_echo' - 1)

\* C22: a transmit-drain pass scans from tx_echo toward tx_next: every object
\* it goes over has its transmit request clear and is invalidated, tx_echo
\* does not pass tx_next, the object it stops at before tx_next has its
\* transmit request set and one unit is released for the stop, and no object
\* is invalidated while its transmit request is set
C22_ScanInOrder ==
    [][IrqTxPass =>
         /\ tx_echo <= tx_echo' /\ tx_echo' <= tx_next
         /\ \A k \in Scanned :
               /\ ~HasBit(msgobj, get_tx_echo_msg_obj(k), "TXRQST")
               /\ ~msgobj'[get_tx_echo_msg_obj(k)].msgval
         /\ ScanStalled =>
               /\ HasBit(msgobj, get_tx_echo_msg_obj(tx_echo'), "TXRQST")
               /\ msgobj'[get_tx_echo_msg_obj(tx_echo')] = msgobj[get_tx_echo_msg_obj(tx_echo')]
               /\ Released = 1 + (IF TxRestart(tx_next, tx_echo') THEN 1 ELSE 0)
         /\ ~ScanStalled => Released = (IF TxRestart(tx_next, tx_echo') THEN 1 ELSE 0)
         /\ \A i \in MsgObjs :
               (msgobj[i].msgval /\ ~msgobj'[i].msgval) =>
                   /\ ~HasBit(msgobj, i, "TXRQST")
                   /\ \E k \in Scanned : i = get_tx_echo_msg_obj(k)]_vars

\* a pass has gone over three sent frames and has stopped at the fourth,
\* which is still to be sent, with two more behind it
C22_Witness ==
    /\ tx_echo = 3
    /\ tx_next = 6
    /\ \A k \in 0..2 : ~msgobj[get_tx_echo_msg_obj(k)].msgval
    /\ \A k \in 3..5 : HasBit(msgobj, get_tx_echo_msg_obj(k), "TXRQST")
    /\ tx_sem.value = C_CAN_MSG_OBJ_TX_NUM - 6 + 2


(***************************************************************************)
(* Interrupt enables of a stopped device.                                  *)
(***************************************************************************)
\* C23: whenever the device is in CAN_STATE_STOPPED and no interrupt pass is
\* in progress, the SIE, EIE and IE bits of the control register are clear,
\* also when the stop ran after a pass had read a nonzero interrupt status
C23_StoppedIrqsOff ==
    (state = "STOPPED" /\ irq_pc = "idle") => ctrlreg \cap IntBits = {}


(***************************************************************************)
(* The bus state machine against the status snapshot.                      *)
(***************************************************************************)
\* the operating state that goes with the status flags
StateOf(flags) ==
    IF "BOFF" \in flags THEN "BUS_OFF"
    ELSE IF "EPASS" \in flags THEN "ERROR_PASSIVE"
    ELSE IF "EWARN" \in flags THEN "ERROR_WARNING"
    ELSE "ERROR_ACTIVE"

\* C24: after every status-change pass dev->state agrees with the status the
\* pass has recorded: CAN_STATE_BUS_OFF if STATUS_BOFF is set, else
\* CAN_STATE_ERROR_PASSIVE if STATUS_EPASS is set, else
\* CAN_STATE_ERROR_WARNING if STATUS_EWARN is set, else CAN_STATE_ERROR_ACTIVE
C24_StateFollowsStatus ==
    [][IrqStatus => state' = StateOf(current_status')]_vars


(***************************************************************************)
(* Edges of the status flags.                                              *)
(***************************************************************************)
\* the pass about to run finds flag set against a snapshot where it was clear
SeesRise(flag) == flag \in stsreg /\ flag \notin last_status

\* the pass about to run finds flag clear against a snapshot where it was set
SeesFall(flag) == flag \notin stsreg /\ flag \in last_status

\* C25: a status-change pass hands over the event of STATUS_EWARN,
\* STATUS_EPASS or STATUS_BOFF once when it finds the flag set against a
\* previous snapshot where it was clear, and not at all otherwise; while the
\* flag has been set in every pass since its event, no further event is
\* handed over for it
C25_EdgeTriggered ==
    [][IrqStatus =>
         \A f \in StatusFlags :
            /\ EventsOf(rcvLog', f) = (IF SeesRise(f) THEN 1 ELSE 0)
            /\ (f \in hist.reported /\ f \in stsreg) => EventsOf(rcvLog', f) = 0
            /\ f \in last_status' <=> f \in stsreg]_vars

\* STATUS_EWARN was reported by an earlier pass and has stayed set; the pass
\* that has just run found STATUS_EPASS risen and has handed over the
\* error-passive event alone
C25_Witness ==
    /\ irq_pc = "unlock"
    /\ last_status = {"EWARN", "EPASS"}
    /\ hist.reported = {"EWARN", "EPASS"}
    /\ Len(rcvLog) = 1
    /\ rcvLog[1].kind = "passive"
    /\ state = "ERROR_PASSIVE"

\* C26: a status-change pass that finds STATUS_BOFF or STATUS_EPASS clear
\* against a previous snapshot where it was set puts dev->state to
\* CAN_STATE_ERROR_ACTIVE and hands no event to rtcan_rcv for the recovery:
\* the only event such a pass can hand over is a bus error
C26_SilentRecovery ==
    [][(IrqStatus /\ (SeesFall("BOFF") \/ SeesFall("EPASS"))) =>
         /\ state' = "ERROR_ACTIVE"
         /\ \A k \in 1..Len(rcvLog') : rcvLog'[k].kind = "buserr"]_vars

\* a pass has found STATUS_BOFF fallen on a device whose semaphore the
\* bus-off pass had destroyed: the state is CAN_STATE_ERROR_ACTIVE and
\* rtcan_rcv has not been called
C26_Witness ==
    /\ irq_pc = "unlock"
    /\ irq_registered
    /\ ~tx_sem.alive
    /\ state = "ERROR_ACTIVE"
    /\ "BOFF" \notin last_status
    /\ rcvLog = <<>>

\* C27: after a start from CAN_STATE_STOPPED or CAN_STATE_BUS_OFF, the first
\* status-change pass that finds set a flag that has risen since the start
\* hands over the event of the flag and takes the device out of
\* CAN_STATE_ERROR_ACTIVE
C27_RiseAfterRestart ==
    [][IrqStatus =>
         \A f \in StatusFlags :
            (f \in stsreg /\ f \in hist.rose) =>
                /\ EventsOf(rcvLog', f) = 1
                /\ state' \in {"ERROR_WARNING", "ERROR_PASSIVE", "BUS_OFF"}]_vars


(***************************************************************************)
(* Drain of a receive pool that is full up to its last object.             *)
(***************************************************************************)
\* every receive object holds a frame, so the core has stored the last one
\* in object C_CAN_MSG_OBJ_RX_LAST, which is interrupt-pending.  Of the
\* objects 1..MaxEobPending, which keep NEWDAT when their frame is handed
\* over, any subset is still interrupt-pending; the objects above them all are
InitRxEob ==
    \E I \in SUBSET (C_CAN_MSG_OBJ_RX_FIRST..MaxEobPending) :
        Started(PoolWith(RxObjs, I \cup ((MaxEobPending + 1)..C_CAN_MSG_OBJ_RX_LAST)), 0,
                [alive |-> TRUE, value |-> C_CAN_MSG_OBJ_TX_NUM, waitq |-> <<>>],
                [s \in Senders |-> "idle"], 0)

\* interrupt passes over the pool while the bus is quiet, the receive drain
\* taken object by object
NextRxEob ==
    \/ IrqEntry
    \/ IrqLock
    \/ IrqRxBegin
    \/ IrqRxIter
    \/ IrqUnlock
    \/ IrqUnlockDevice
    \/ IrqEnable

\* the interrupt line stays asserted while an object is interrupt-pending, so
\* the handler is entered again and each pass runs to its end
SpecRxEob ==
    /\ InitRxEob
    /\ [][NextRxEob]_vars
    /\ WF_vars(IrqEntry)
    /\ WF_vars(IrqLock)
    /\ WF_vars(IrqRxBegin)
    /\ WF_vars(IrqRxIter)
    /\ WF_vars(IrqUnlock)
    /\ WF_vars(IrqUnlockDevice)
    /\ WF_vars(IrqEnable)

\* C28: a frame the core has stored in the last receive object (the one set
\* up with IF_MCONT_EOB) is eventually handed to rtcan_rcv and the
\* interrupt-pending bit of the object is eventually cleared
C28_LastSlotDelivered ==
    HasBit(msgobj, C_CAN_MSG_OBJ_RX_LAST, "INTPND") ~>
        (/\ msgobj[C_CAN_MSG_OBJ_RX_LAST].data \in Range(delivered)
         /\ ~HasBit(msgobj, C_CAN_MSG_OBJ_RX_LAST, "INTPND"))


(***************************************************************************)
(* Interrupt enables during an interrupt pass.                             *)
(***************************************************************************)
\* C29: in an interrupt pass that has read a nonzero interrupt status, SIE,
\* EIE and IE are clear before dev->device_lock is taken, stay clear for the
\* whole pass, and are set again only after the lock has been put
C29_PassIrqsOff ==
    /\ irq_pc \in {"lock", "dispatch", "rx", "unlock", "unlockdev"} =>
           ctrlreg \cap IntBits = {}
    /\ irq_pc \in {"lock", "enable"} => device_lock /= "irq"

(***************************************************************************)
(* The locks of an interrupt pass.                                         *)
(***************************************************************************)
\* a started device with two frames in the ring and some receive objects
\* holding a frame
InitIrqLocks ==
    \E I \in SUBSET (C_CAN_MSG_OBJ_RX_FIRST..MaxLockPending) :
        Started(WriteFrames(PoolWith(I, I), 0, 2), 2,
                [alive |-> TRUE, value |-> C_CAN_MSG_OBJ_TX_NUM - 2, waitq |-> <<>>],
                [s \in Senders |-> "idle"], 2)

\* interrupt passes through the status, the receive and the transmit branch
NextIrqLocks ==
    \/ HwTxComplete
    \/ HwStatusChange
    \/ IrqEntry
    \/ IrqLock
    \/ IrqStatus
    \/ IrqRxPoll
    \/ IrqTx
    \/ IrqUnlock
    \/ IrqUnlockDevice
    \/ IrqEnable

SpecIrqLocks == InitIrqLocks /\ [][NextIrqLocks]_vars

HeldByIrq == {l \in {"device", "recv_list", "socket"} :
                 CASE l = "device" -> device_lock = "irq"
                   [] l = "recv_list" -> recv_list_lock = "irq"
                   [] l = "socket" -> socket_lock = "irq"}

\* C30: a pass takes the dispatch-list lock and the socket lock at most
\* once, whatever the number of events it hands over, and only while it
\* holds the device lock; it puts the two together, before the device lock;
\* outside the stretch from the get of the device lock to its put the pass
\* holds none of the three locks, whichever branch it took
C30_PassLocks ==
    /\ lock_gets <= 1
    /\ HeldByIrq \in {{}, {"device"}, {"device", "recv_list", "socket"}}
    /\ "recv_list" \in HeldByIrq => lock_gets = 1 /\ irq_pc = "unlock"
    /\ irq_pc = "unlockdev" => HeldByIrq = {"device"}
    /\ irq_pc \in {"idle", "lock", "enable"} => HeldByIrq = {}

\* a status pass that has handed over several events holds the two locks,
\* taken once
C30_Witness ==
    /\ irq_pc = "unlock"
    /\ irqstatus = STATUS_INTERRUPT
    /\ Len(rcvLog) >= 2
    /\ lock_gets = 1
    /\ HeldByIrq = {"device", "recv_list", "socket"}

(***************************************************************************)
(* Register writes of an interrupt pass and the device lock.               *)
(***************************************************************************)
\* a step of c_can_interrupt
PassStep ==
    \/ IrqEntry
    \/ IrqLock
    \/ IrqStatus
    \/ IrqRxPoll
    \/ IrqRxBegin
    \/ IrqRxIter
    \/ IrqTx
    \/ IrqUnlock
    \/ IrqUnlockDevice
    \/ IrqEnable

\* the registers and message objects the driver writes
WrittenRegs == <<ctrlreg, stsreg, lec, msgobj>>

\* C31: a step of an interrupt pass that changes a controller register is
\* taken while the pass holds the device lock
C31_WritesUnderLock ==
    [][PassStep /\ WrittenRegs' /= WrittenRegs => device_lock = "irq"]_vars

(***************************************************************************)
(* The status branch: transfer flags and the last error code.              *)
(***************************************************************************)
\* starts, changes of the error state, transfers that end well, bus errors
\* of every kind, and the passes that serve the status interrupt
NextStatus ==
    \/ ModeStart
    \/ HwStatusChange
    \/ HwTransferOk
    \/ HwBusError
    \/ IrqEntry
    \/ IrqLock
    \/ IrqStatus
    \/ IrqUnlock
    \/ IrqUnlockDevice
    \/ IrqEnable

SpecStatus == Init /\ [][NextStatus]_vars

\* C32: a status pass that reads the status register with TXOK, RXOK or
\* both set leaves both clear in the register
C32_OkFlagsCleared ==
    [][IrqStatus /\ stsreg \cap OkFlags /= {} => stsreg' \cap OkFlags = {}]_vars

\* the bus-error events among the rtcan_rcv calls log
BusErrs(log) == Cardinality({k \in 1..Len(log) : log[k].kind = "buserr"})

\* C33: a status pass that reads one of the six error codes in the LEC field
\* delivers exactly one bus-error event and leaves LEC_UNUSED in the field;
\* one that reads LEC_NO_ERROR or LEC_UNUSED delivers none and leaves the
\* field as it was; and only the hardware puts an error code in the field,
\* so passes with no new bus error in between deliver no further event
C33_BusErrorOnce ==
    [][/\ IrqStatus /\ lec \in LecErrors =>
            BusErrs(rcvLog') = BusErrs(rcvLog) + 1 /\ lec' = LEC_UNUSED
       /\ IrqStatus /\ lec \in {LEC_NO_ERROR, LEC_UNUSED} =>
            BusErrs(rcvLog') = BusErrs(rcvLog) /\ lec' = lec
       /\ lec' \in LecErrors /\ lec' /= lec => HwStatusChange \/ HwBusError]_vars

\* a status pass that read a transfer flag and an error code has delivered
\* the one bus-error event and has left LEC_UNUSED in the field
C33_Witness ==
    /\ irq_pc = "unlock"
    /\ irqstatus = STATUS_INTERRUPT
    /\ current_status \cap OkFlags /= {}
    /\ BusErrs(rcvLog) = 1
    /\ lec = LEC_UNUSED
    /\ hist.stchanges = MaxStatusChanges

(***************************************************************************)
(* Submission over the whole range of priv->tx_next.  The counter is an    *)
(* unsigned int of 32 bits, kept here as its two 16-bit halves             *)
(* [hi, lo] with value hi * 2^16 + lo.                                     *)
(***************************************************************************)
HalfRange == 65536

\* an increment of the low half that loses the carry
U32Inc_NoCarry(w) == [w EXCEPT !.lo = (@ + 1) % HalfRange]

\* ++ on an unsigned int
U32Inc(w) ==
    IF w.lo + 1 < HalfRange THEN [w EXCEPT !.lo = @ + 1]
    ELSE [hi |-> (w.hi + 1) % HalfRange, lo |-> 0]

\* w & mask for a mask below 2^16
U32And(w, mask) == BitAnd(w.lo, mask)

\* get_tx_next_msg_obj on the two halves
get_tx_next_msg_obj_u32(w) ==
    U32And(w, C_CAN_NEXT_MSG_OBJ_MASK) + C_CAN_MSG_OBJ_TX_FIRST

\* c_can_start_xmit on the two halves; the frame carries the low half
c_can_start_xmit_u32(s) ==
    /\ sender[s] = "holding"
    /\ device_lock = "free"
    /\ LET msg_obj_no == get_tx_next_msg_obj_u32(tx_next) IN
         /\ msgobj' = c_can_write_msg_object(msgobj, msg_obj_no, tx_next.lo)
         /\ hist' = [hist EXCEPT !.overwrote = @ \/ msgobj[msg_obj_no].msgval]
    /\ tx_next' = U32Inc(tx_next)
    /\ sender' = [sender EXCEPT ![s] = "idle"]
    /\ UNCHANGED <<state, ctrlreg, stsreg, lec, sts_int, tx_echo, tx_sem,
                   irq_registered, irqVars, lockVars, busVars, rcvLog, delivered>>
    /\ UNCHANGED codecVars

StartXmitU32 == \E s \in Senders : c_can_start_xmit_u32(s)

\* counter values up to MaxWrapDist before and after a wrap of the low half,
\* in the lowest and in the highest value of the high half
WrapCounters ==
    {[hi |-> h, lo |-> l] :
        h \in {0, HalfRange - 1},
        l \in (0..MaxWrapDist) \cup ((HalfRange - MaxWrapDist)..(HalfRange - 1))}

\* a started device that has sent every frame submitted so far
InitXmitU32 ==
    \E w \in WrapCounters :
        StartedAt(ConfiguredHw.msgobj, w, w,
                  [alive |-> TRUE, value |-> C_CAN_MSG_OBJ_TX_NUM, waitq |-> <<>>],
                  [s \in Senders |-> "idle"], 0)

NextXmitU32 ==
    \/ Acquire
    \/ StartXmitU32

SpecXmitU32 == InitXmitU32 /\ [][NextXmitU32]_vars

\* the objects a step writes
Written == {i \in MsgObjs : msgobj'[i] /= msgobj[i]}

\* the counter goes up by one, modulo 2^32
IncByOne ==
    \/ tx_next'.lo = tx_next.lo + 1 /\ tx_next'.hi = tx_next.hi
         /\ tx_next'.lo < HalfRange
    \/ tx_next.lo = HalfRange - 1 /\ tx_next'.lo = 0
         /\ tx_next'.hi = (tx_next.hi + 1) % HalfRange

\* C34 as stated: the frame goes to object (tx_next mod 16) + 16, an object
\* of 16..31, and tx_next goes up by one
C34_SlotFrom16 ==
    [][StartXmitU32 =>
         LET slot == (tx_next.lo % 16) + 16 IN
           /\ slot \in 16..31
           /\ Written = {slot}
           /\ msgobj'[slot].data = tx_next.lo
           /\ IncByOne]_vars

\* C34: the frame goes to object (tx_next mod 16) + 17, an object of the
\* transmit ring 17..32, whatever the counter holds, and tx_next goes up by
\* one modulo 2^32
C34_SlotFrom17 ==
    [][StartXmitU32 =>
         LET slot == (tx_next.lo % 16) + 17 IN
           /\ slot \in 17..32
           /\ slot \in TxObjs
           /\ Written = {slot}
           /\ msgobj'[slot].data = tx_next.lo
           /\ HasBit(msgobj', slot, "TXRQST")
           /\ IncByOne]_vars

\* the counter has wrapped from 2^32 - 1 to 0 and the frame submitted at
\* 2^32 - 1 sits in object 32
C34_Witness ==
    /\ tx_next = [hi |-> 0, lo |-> 0]
    /\ tx_echo = [hi |-> HalfRange - 1, lo |-> HalfRange - 2]
    /\ msgobj[C_CAN_MSG_OBJ_TX_LAST].data = HalfRange - 1
    /\ HasBit(msgobj, C_CAN_MSG_OBJ_TX_LAST, "TXRQST")

(***************************************************************************)
(* Termination of an interrupt pass against a hardware that answers as it  *)
(* likes.                                                                  *)
(***************************************************************************)
\* the while loop of c_can_msg_obj_is_busy when the busy bit reads set on
\* the first busyfor reads: [count, reads]
RECURSIVE BusyLoop(_, _, _)
BusyLoop(count, busyfor, reads) ==
    IF count = 0 THEN [count |-> count, reads |-> reads]
    ELSE IF reads + 1 <= busyfor
         THEN BusyLoop(count - 1, busyfor, reads + 1)
         ELSE [count |-> count, reads |-> reads + 1]

\* a poll that starts over once after it has run out
c_can_msg_obj_is_busy_Retry(busyfor) ==
    LET a == BusyLoop(MIN_TIMEOUT_VALUE, busyfor, 0)
        b == IF a.count = 0 THEN BusyLoop(MIN_TIMEOUT_VALUE, busyfor, a.reads)
             ELSE a
    IN [busy |-> b.count = 0, reads |-> b.reads]

\* c_can_msg_obj_is_busy: [busy, reads] with busy the return value
c_can_msg_obj_is_busy(busyfor) ==
    LET r == BusyLoop(MIN_TIMEOUT_VALUE, busyfor, 0)
    IN [busy |-> r.count = 0, reads |-> r.reads]

\* control words the interface registers may hold when c_can_object_get
\* has given up waiting
StaleWords == {{}, {"EOB"}, {"MSGLST"}, {"NEWDAT"}}

MaxOf(a, b) == IF a >= b THEN a ELSE b

\* the busy bit clears at once, or on the last read the poll makes, or
\* after it, or not within MaxBusy reads
BusyRuns == {0} \cup ((MIN_TIMEOUT_VALUE - 1)..MaxBusy)

\* one iteration of the c_can_do_rx_poll loop and the loop's step, with the
\* busy bit set for bg reads after the command of c_can_object_get and for
\* bp reads after the command of the c_can_object_put that follows.  Both
\* return after their poll whatever it found: a get that gave up leaves the
\* control word and data of the object, or a stale word with no data, in the
\* interface registers; a put that gave up has reached the message RAM or
\* has not.  hist.polls keeps the most reads of the busy bit made for one
\* command, hist.timeouts the commands that have timed out
IrqRxIterHw ==
    /\ irq_pc = "rx"
    /\ \E bg \in BusyRuns, bp \in BusyRuns, lands \in BOOLEAN,
          word \in StaleWords \cup {msgobj[msg_obj].ctrl} :
         LET g == c_can_msg_obj_is_busy(bg)
             p == c_can_msg_obj_is_busy(bp)
             data == IF word = msgobj[msg_obj].ctrl THEN msgobj[msg_obj].data ELSE 0
             r == IF val_bit THEN RxIterWith(msgobj, msg_obj, word, data)
                  ELSE [mo |-> msgobj, evs |-> <<>>, stop |-> FALSE]
             put == r.evs /= <<>>
             last == r.stop \/ msg_obj + 1 > C_CAN_MSG_OBJ_RX_LAST
             mo2 == IF put /\ p.busy /\ ~lands THEN msgobj ELSE r.mo
             tmo == (IF val_bit /\ g.busy THEN 1 ELSE 0) +
                    (IF put /\ p.busy THEN 1 ELSE 0)
         IN /\ ~val_bit => bg = 0
            /\ ~(val_bit /\ g.busy) => word = msgobj[msg_obj].ctrl
            /\ ~put => bp = 0
            /\ ~(put /\ p.busy) => lands
            /\ hist.timeouts + tmo <= MaxTimeouts
            /\ msgobj' = mo2
            /\ rcvLog' = rcvLog \o Logged(r.evs, recv_lock_free)
            /\ delivered' = delivered \o FrameIds(r.evs)
            /\ hist' = [hist EXCEPT
                          !.polls = MaxOf(@, MaxOf(IF val_bit THEN g.reads ELSE 0,
                                                   IF put THEN p.reads ELSE 0)),
                          !.timeouts = @ + tmo]
            /\ IF last
               THEN /\ RecvLocksTaken
                    /\ irq_pc' = "unlock"
                    /\ msg_obj' = 0
                    /\ val_bit' = FALSE
               ELSE /\ msg_obj' = msg_obj + 1
                    /\ val_bit' = HasBit(mo2, msg_obj + 1, "INTPND")
                    /\ UNCHANGED <<irq_pc, recv_lock_free, lock_gets, recv_list_lock,
                                   socket_lock>>
    /\ UNCHANGED <<state, ctrlreg, stsreg, lec, sts_int, txVars, irq_registered,
                   irqstatus, device_lock, busVars>>
    /\ UNCHANGED codecVars

\* a started device with one frame in the ring and an empty receive pool
InitPassEnds ==
    Started(WriteFrames(ConfiguredHw.msgobj, 0, 1), 1,
            [alive |-> TRUE, value |-> C_CAN_MSG_OBJ_TX_NUM - 1, waitq |-> <<>>],
            [s \in Senders |-> "idle"], 1)

HwRxArriveFew == hist.arrivals < MaxBusyArrivals /\ HwRxArrive

HwStatusChangeFew == hist.stchanges < MaxBusyStatus /\ HwStatusChange

\* passes through every branch while frames go out and come in and the
\* error state changes between their steps
NextPassEnds ==
    \/ HwTxComplete
    \/ HwRxArriveFew
    \/ HwStatusChangeFew
    \/ IrqEntry
    \/ IrqLock
    \/ IrqStatus
    \/ IrqRxBegin
    \/ IrqRxIterHw
    \/ IrqTx
    \/ IrqUnlock
    \/ IrqUnlockDevice
    \/ IrqEnable

\* a pass that has started runs on: its steps are weakly fair, those of the
\* hardware are not
SpecPassEnds ==
    /\ InitPassEnds
    /\ [][NextPassEnds]_vars
    /\ WF_vars(IrqLock)
    /\ WF_vars(IrqStatus)
    /\ WF_vars(IrqRxBegin)
    /\ WF_vars(IrqRxIterHw)
    /\ WF_vars(IrqTx)
    /\ WF_vars(IrqUnlock)
    /\ WF_vars(IrqUnlockDevice)
    /\ WF_vars(IrqEnable)

\* C35: a pass that has started returns; no command to an interface has its
\* busy bit read more than 6 times; an iteration of the receive scan moves
\* on to the next object or ends the scan, also when a command has timed
\* out; the transmit scan makes at most tx_next - tx_echo iterations
C35_PassTerminates ==
    /\ (irq_pc /= "idle") ~> (irq_pc = "idle")
    /\ [](hist.polls <= 6)
    /\ [][IrqRxIterHw =>
            \/ msg_obj' = msg_obj + 1 /\ msg_obj' <= C_CAN_MSG_OBJ_RX_LAST
                 /\ irq_pc' = "rx"
            \/ irq_pc' = "unlock"]_vars
    /\ [][IrqTx =>
            (tx_echo' - tx_echo) + (IF tx_echo' < tx_next THEN 1 ELSE 0)
                <= tx_next - tx_echo]_vars

\* a receive pass in which a command has timed out after 6 reads of the
\* busy bit has gone on and has returned
C35_Witness ==
    /\ irq_pc = "idle"
    /\ hist.timeouts = MaxTimeouts
    /\ hist.polls = 6
    /\ Len(delivered) > 0

=============================================================================
